---- MODULE Spec2Model ----
(***************************************************************************)
(* A model of the SpectraMax XML measurement-extraction engine             *)
(* (growth_curve_calculator/spectramax.py, utils.py, microplate.py).       *)
(*                                                                         *)
(* Text is modelled at character level: a Python str is a sequence of      *)
(* one-character strings, so that strip/split/join/lower/"in" are computed *)
(* the way the code computes them.  A document is the row stream that      *)
(* soup.find_all("ss:Row") returns; a row is identified by its position    *)
(* and compared (Tag.__eq__) by its content.                               *)
(***************************************************************************)
EXTENDS Integers, Sequences, FiniteSets, TLC

VARIABLES
    doc,        \* the row stream of the document: a sequence of row contents
    pc,         \* orchestrator position: start, segmented, done, failed
    sections,   \* lists_of_plate_reader_xml: one list of row positions per plate
    nextPlate,  \* index of the next section generate_plate_measurements parses
    yielded,    \* the records the generator has yielded so far
    returned,   \* what parse() returned (NoResult until it returns)
    failure,    \* the exception that ended the parse ("none" while there is none)
    harvest,    \* the metadata loop of _parse_plate_reader_xml run on its own:
                \* [pos, state], pos the number of rows of the section it has read
    input,      \* the argument(s) of a utility function called on its own
    output      \* the outcome of that call (NoResult until it returns)

vars == <<doc, pc, sections, nextPlate, yielded, returned, failure, harvest, input, output>>

(***************************************************************************)
(* Bounds of the model.                                                    *)
(***************************************************************************)
MaxRows == 5        \* longest freely composed document (rows)
MaxPlates == 2      \* most plates in a document composed of plate blocks
MaxMetaRows == 4    \* longest freely composed plate section (rows)
MaxIndices == 4     \* longest index sequence given to forward_fill_indices
MaxStart == 2       \* largest start offset given to forward_fill_indices
MaxFloatLen == 3    \* longest freely composed text given to value_to_float

(***************************************************************************)
(* Python values that are not text.                                        *)
(***************************************************************************)
None == <<"None">>          \* Python None where text is expected (an absent attribute or value)
NoRow == 0                  \* Python None where a row is expected (no previous or next row)
NoResult == <<"NoResult">>  \* parse() has not returned a value

(***************************************************************************)
(* str helpers, computed as Python computes them.                          *)
(***************************************************************************)
NL == "\n"

IsSpace(c) == c \in {" ", "\n", "\t", "\r"}

RECURSIVE LStrip(_)
LStrip(s) == IF s = <<>> THEN s
             ELSE IF IsSpace(Head(s)) THEN LStrip(Tail(s)) ELSE s

RECURSIVE RStrip(_)
RStrip(s) == IF s = <<>> THEN s
             ELSE IF IsSpace(s[Len(s)]) THEN RStrip(SubSeq(s, 1, Len(s) - 1)) ELSE s

\* str.strip()
Strip(s) == RStrip(LStrip(s))

\* str.split(sep) for a one-character separator: always at least one piece
RECURSIVE SplitFrom(_, _, _)
SplitFrom(s, sep, cur) ==
    IF s = <<>> THEN <<cur>>
    ELSE IF Head(s) = sep THEN <<cur>> \o SplitFrom(Tail(s), sep, <<>>)
    ELSE SplitFrom(Tail(s), sep, Append(cur, Head(s)))

Split(s, sep) == SplitFrom(s, sep, <<>>)

\* "".join(parts)
RECURSIVE Join(_)
Join(parts) == IF parts = <<>> THEN <<>> ELSE Head(parts) \o Join(Tail(parts))

\* re.sub("\n", "", s)
RECURSIVE RemoveNewlines(_)
RemoveNewlines(s) ==
    IF s = <<>> THEN <<>>
    ELSE IF Head(s) = NL THEN RemoveNewlines(Tail(s))
    ELSE <<Head(s)>> \o RemoveNewlines(Tail(s))

UpperLetters == <<"A","B","C","D","E","F","G","H","I","J","K","L","M",
                  "N","O","P","Q","R","S","T","U","V","W","X","Y","Z">>
LowerLetters == <<"a","b","c","d","e","f","g","h","i","j","k","l","m",
                  "n","o","p","q","r","s","t","u","v","w","x","y","z">>

LetterPos(c, letters) ==
    IF \E i \in 1..Len(letters) : letters[i] = c
    THEN CHOOSE i \in 1..Len(letters) : letters[i] = c
    ELSE 0

LowerChar(c) == IF LetterPos(c, UpperLetters) > 0
                THEN LowerLetters[LetterPos(c, UpperLetters)] ELSE c

UpperChar(c) == IF LetterPos(c, LowerLetters) > 0
                THEN UpperLetters[LetterPos(c, LowerLetters)] ELSE c

\* str.lower()
Lower(s) == [i \in 1..Len(s) |-> LowerChar(s[i])]

\* sub in s
Contains(s, sub) ==
    \E i \in 0..(Len(s) - Len(sub)) : SubSeq(s, i + 1, i + Len(sub)) = sub

(***************************************************************************)
(* Outcomes of a call: a value, or an exception that propagates.           *)
(***************************************************************************)
Ok(v) == [raised |-> "none", value |-> v]
Raise(e) == [raised |-> e]
IsOk(r) == r.raised = "none"

(***************************************************************************)
(* int(str) and float(str), by the grammar CPython accepts: surrounding    *)
(* whitespace, a sign, digits with single underscores between them; for    *)
(* float also a fraction, an exponent and the words inf, infinity, nan.    *)
(***************************************************************************)
Digits == <<"0","1","2","3","4","5","6","7","8","9">>

IsDigit(c) == \E i \in 1..Len(Digits) : Digits[i] = c

DigitVal(c) == (CHOOSE i \in 1..Len(Digits) : Digits[i] = c) - 1

\* end of digit (["_"] digit)* continued at position j
RECURSIVE ScanDigits(_, _)
ScanDigits(s, j) ==
    IF j <= Len(s) /\ IsDigit(s[j]) THEN ScanDigits(s, j + 1)
    ELSE IF j + 1 <= Len(s) /\ s[j] = "_" /\ IsDigit(s[j + 1]) THEN ScanDigits(s, j + 2)
    ELSE j

\* end of the run of digits continued at position j
RECURSIVE ScanPlainDigits(_, _)
ScanPlainDigits(s, j) ==
    IF j <= Len(s) /\ IsDigit(s[j]) THEN ScanPlainDigits(s, j + 1) ELSE j

\* position after the digit part that starts at i; i itself when there is none
DigitPartEnd(s, i) == IF i <= Len(s) /\ IsDigit(s[i]) THEN ScanDigits(s, i + 1) ELSE i

\* the digits of s[i..j-1], underscores dropped
DigitsOf(s, i, j) == SelectSeq(SubSeq(s, i, j - 1), IsDigit)

RECURSIVE DigitsValue(_, _)
DigitsValue(ds, acc) ==
    IF ds = <<>> THEN acc ELSE DigitsValue(Tail(ds), 10 * acc + DigitVal(Head(ds)))

IsSign(c) == c \in {"+", "-"}

\* position after the sign of the stripped text t
SignEnd(t) == IF t # <<>> /\ IsSign(t[1]) THEN 2 ELSE 1

\* int of the stripped text t whose digits are t[i..e-1]
IntOfDigits(t, i, e) ==
    IF e > i /\ e = Len(t) + 1
    THEN Ok(IF i = 2 /\ t[1] = "-"
            THEN 0 - DigitsValue(DigitsOf(t, i, e), 0)
            ELSE DigitsValue(DigitsOf(t, i, e), 0))
    ELSE Raise("ValueError")

IntFromSign(t, i) == IntOfDigits(t, i, DigitPartEnd(t, i))

IntStripped(t) == IntFromSign(t, SignEnd(t))

\* int(text): Ok(n) or ValueError
PyInt(text) == IntStripped(Strip(text))

(***************************************************************************)
(* A float is [kind, neg, digits, order]: kind is finite, inf or nan; a    *)
(* finite value is 0.d1d2... * 10^order with digits d1d2... free of        *)
(* leading and trailing zeros (zero has no digits and order 0).            *)
(***************************************************************************)
NaN == [kind |-> "nan", neg |-> FALSE, digits |-> <<>>, order |-> 0]
Inf(neg) == [kind |-> "inf", neg |-> neg, digits |-> <<>>, order |-> 0]
Zero == [kind |-> "finite", neg |-> FALSE, digits |-> <<>>, order |-> 0]

RECURSIVE StripLeadingZeros(_)
StripLeadingZeros(ds) ==
    IF ds # <<>> /\ Head(ds) = "0" THEN StripLeadingZeros(Tail(ds)) ELSE ds

RECURSIVE StripTrailingZeros(_)
StripTrailingZeros(ds) ==
    IF ds # <<>> /\ ds[Len(ds)] = "0"
    THEN StripTrailingZeros(SubSeq(ds, 1, Len(ds) - 1)) ELSE ds

\* ds >= ref, both read as 0.d1d2...
RECURSIVE FractionGeq(_, _)
FractionGeq(ds, ref) ==
    IF ref = <<>> THEN TRUE
    ELSE IF ds = <<>> THEN \A i \in 1..Len(ref) : ref[i] = "0"
    ELSE IF DigitVal(Head(ds)) # DigitVal(Head(ref))
         THEN DigitVal(Head(ds)) > DigitVal(Head(ref))
         ELSE FractionGeq(Tail(ds), Tail(ref))

\* decimal literals at or above 0.17976931348623158e309 round to infinity
\* (the double after DBL_MAX), and those below 0.25e-323 round to zero
OverflowOrder == 309
OverflowDigits == <<"1","7","9","7","6","9","3","1","3","4","8","6","2","3","1","5","8">>
UnderflowOrder == 0 - 323
UnderflowDigits == <<"2","5">>

\* the double nearest to 0.ds * 10^order, within the model's precision
RoundToDouble(neg, ds, order) ==
    LET lead == StripLeadingZeros(ds)
        ord == order - (Len(ds) - Len(lead))
        d == StripTrailingZeros(lead)
    IN  IF d = <<>> THEN Zero
        ELSE IF ord > OverflowOrder \/ (ord = OverflowOrder /\ FractionGeq(d, OverflowDigits))
             THEN Inf(neg)
        ELSE IF ord < UnderflowOrder \/ (ord = UnderflowOrder /\ ~FractionGeq(d, UnderflowDigits))
             THEN Zero
        ELSE [kind |-> "finite", neg |-> neg, digits |-> d, order |-> ord]

sInf == <<"i","n","f">>
sInfinity == <<"i","n","f","i","n","i","t","y">>
sNan == <<"n","a","n">>

\* float(text) is read left to right: t is the stripped text, i the position
\* after the sign, a after the integer digits, b after the fraction, c the
\* first exponent digit and d the position after the exponent.
HasPoint(t, a) == a <= Len(t) /\ t[a] = "."

HasExp(t, b) == b <= Len(t) /\ LowerChar(t[b]) = "e"

ExpValue(t, c, d) ==
    IF t[c - 1] = "-" THEN 0 - DigitsValue(DigitsOf(t, c, d), 0)
    ELSE DigitsValue(DigitsOf(t, c, d), 0)

\* well-formed: a digit in the integer part or the fraction, a digit in the
\* exponent if there is one, and nothing after it
FloatOfParts(t, i, a, b, c, d) ==
    IF /\ a > i \/ b > a + 1
       /\ HasExp(t, b) => d > c
       /\ d = Len(t) + 1
    THEN Ok(RoundToDouble(i = 2 /\ t[1] = "-",
                          DigitsOf(t, i, a) \o DigitsOf(t, a + 1, b),
                          Len(DigitsOf(t, i, a))
                              + (IF HasExp(t, b) THEN ExpValue(t, c, d) ELSE 0)))
    ELSE Raise("ValueError")

FloatFromExp(t, i, a, b, c) ==
    FloatOfParts(t, i, a, b, c, IF HasExp(t, b) THEN DigitPartEnd(t, c) ELSE b)

FloatFromFrac(t, i, a, b) ==
    FloatFromExp(t, i, a, b,
                 IF HasExp(t, b) /\ b + 1 <= Len(t) /\ IsSign(t[b + 1])
                 THEN b + 2 ELSE b + 1)

FloatFromInt(t, i, a) ==
    FloatFromFrac(t, i, a, IF HasPoint(t, a) THEN DigitPartEnd(t, a + 1) ELSE a)

FloatFromSign(t, i) ==
    IF Lower(SubSeq(t, i, Len(t))) \in {sInf, sInfinity} THEN Ok(Inf(i = 2 /\ t[1] = "-"))
    ELSE IF Lower(SubSeq(t, i, Len(t))) = sNan THEN Ok(NaN)
    ELSE FloatFromInt(t, i, DigitPartEnd(t, i))

FloatStripped(t) == FloatFromSign(t, SignEnd(t))

\* float(text): Ok(float) or ValueError
PyFloat(text) == FloatStripped(Strip(text))

(***************************************************************************)
(* utils.py                                                                *)
(***************************************************************************)
\* forward fill that repeats the previous index for an absent one
RECURSIVE FillFromNoStep(_, _)
FillNoStepExplicit(rest, int_indices, n) ==
    IF IsOk(n) THEN FillFromNoStep(Tail(rest), Append(int_indices, n.value)) ELSE n

FillFromNoStep(rest, int_indices) ==
    IF rest = <<>> THEN Ok(int_indices)
    ELSE IF Head(rest) # None
         THEN FillNoStepExplicit(rest, int_indices, PyInt(Head(rest)))
         ELSE FillFromNoStep(Tail(rest), Append(int_indices, int_indices[Len(int_indices)] - 1))

\* the loop of forward_fill_indices over str_indices[1:]
RECURSIVE FillFrom(_, _)
\* int_indices.append(int(str_index)), n being int(str_index)
FillExplicit(rest, int_indices, n) ==
    IF IsOk(n) THEN FillFrom(Tail(rest), Append(int_indices, n.value)) ELSE n

FillFrom(rest, int_indices) ==
    IF rest = <<>> THEN Ok(int_indices)
    ELSE IF Head(rest) # None
         THEN FillExplicit(rest, int_indices, PyInt(Head(rest)))
         ELSE FillFrom(Tail(rest), Append(int_indices, int_indices[Len(int_indices)] + 1))

forward_fill_indices(str_indices, start) ==
    FillFrom(SubSeq(str_indices, 2, Len(str_indices)), <<start>>)

\* value_to_float without its except clause
value_to_float_uncaught(value) == PyFloat(value)

\* except ValueError: return np.nan
CatchValueError(f) == IF f.raised = "ValueError" THEN Ok(NaN) ELSE f

\* try: return float(value) / except ValueError: return np.nan
value_to_float(value) == CatchValueError(PyFloat(value))

(***************************************************************************)
(* The marker texts of the code.                                           *)
(***************************************************************************)
sPlateName == <<"P","l","a","t","e"," ","n","a","m","e">>
sWellDataMarker == <<"w","e","l","l"," ","d","a","t","a">>
sMeasurementType == <<"M","e","a","s","u","r","e","m","e","n","t"," ","t","y","p","e">>
sEndpoint == <<"E","n","d","p","o","i","n","t">>
sSpectrumScan == <<"S","p","e","c","t","r","u","m","S","c","a","n">>
sKinetic == <<"K","i","n","e","t","i","c">>
sWavelengthExEm == <<"W","a","v","e","l","e","n","g","t","h","(","E","x","/","E","m",")">>
sWavelengthWell == <<"W","a","v","e","l","e","n","g","t","h","/","W","e","l","l">>
sCycleSecondsWell ==
    <<"C","y","c","l","e","(","S","e","c","o","n","d","s",")","/","W","e","l","l">>
sExcitationSweep == <<"E","x","c","i","t","a","t","i","o","n"," ","s","w","e","e","p">>
sEmissionStart == <<"E","m","i","s","s","i","o","n"," ","s","t","a","r","t">>
sExcitationStart == <<"E","x","c","i","t","a","t","i","o","n"," ","s","t","a","r","t">>
sTrue == <<"T","r","u","e">>
sReadTime == <<"R","e","a","d"," ","T","i","m","e">>
sWellCount == <<"W","e","l","l"," ","c","o","u","n","t">>

(***************************************************************************)
(* Rows and cells.  A cell is [index, data]: index is its ss:Index         *)
(* attribute (text, or None), data the text of its Data element (or None   *)
(* for a cell without one).  The text nodes of a row follow the layout the *)
(* code relies on: every element starts on a line of its own, with no      *)
(* indentation, so cell.text is "\n" + data + "\n" and row.text joins the  *)
(* cells with newlines.                                                    *)
(***************************************************************************)
Cell(d) == [index |-> None, data |-> d]
ICell(i, d) == [index |-> i, data |-> d]

\* cell.text
CellText(c) == IF c.data = None THEN <<NL>> ELSE <<NL>> \o c.data \o <<NL>>

\* xml_row.text
RECURSIVE CellsText(_)
CellsText(cells) ==
    IF cells = <<>> THEN <<>>
    ELSE CellText(Head(cells)) \o <<NL>> \o CellsText(Tail(cells))

RowText(row) == IF row = <<>> THEN <<>> ELSE <<NL>> \o CellsText(row)

\* xml_row.find("ss:Data"): the first Data element of the row, None without one
RECURSIVE FirstData(_)
FirstData(row) ==
    IF row = <<>> THEN None
    ELSE IF Head(row).data # None THEN Head(row).data
    ELSE FirstData(Tail(row))

\* the condition of the comprehension at spectramax.py:119-125
IsPlateStart(row) ==
    /\ row # <<>>
    /\ FirstData(row) # None
    /\ FirstData(row) = sPlateName

(***************************************************************************)
(* Row contents the documents are composed of.  The state keeps the name   *)
(* of a row's content; RowOf gives the cells.                              *)
(***************************************************************************)
sP1 == <<"P","1">>
sP2 == <<"P","2">>
sGroup == <<"G","r","o","u","p">>
sNote == <<"n","o","t","e">>
sBogus == <<"B","o","g","u","s">>
sWellData == <<"W","e","l","l"," ","D","a","t","a">>
sAllWELLDATA == <<"a","l","l"," ","W","E","L","L"," ","D","A","T","A">>
sMethod == <<"M","e","t","h","o","d">>
sAbs == <<"A","b","s">>
sFl == <<"F","l">>
sTwoLines == <<"4","8","5",",","\n","5","2","5">>
sNm == <<"n","m">>
sBarcode == <<"B","a","r","c","o","d","e">>
sTemperature == <<"T","e","m","p">>
sError == <<"E","r","r","o","r">>
sA1 == <<"A","1">>
sA2 == <<"A","2">>
sA == <<"A">>
s0 == <<"0">>
s1 == <<"1">>
s2 == <<"2">>
s3 == <<"3">>
s25 == <<"2","5">>
s30 == <<"3","0">>
s01 == <<"0",".","1">>
s02 == <<"0",".","2">>
s04 == <<"0",".","4">>
s350 == <<"3","5","0">>
s525 == <<"5","2","5">>
s485x525 == <<"4","8","5","/","5","2","5">>
s48Wells == <<"4","8"," ","W","e","l","l","s">>
sGoodTime == <<"0","2","/","2","9","/","2","0","2","4"," ","1","0",":","0","5",":","0","0">>
sBadTime == <<"2","0","2","4","-","0","2","-","2","9">>
sB == <<"B">>
sI == <<"I">>
s13 == <<"1","3">>
s60 == <<"6","0">>
s360 == <<"3","6","0">>
s485 == <<"4","8","5">>
s561x670 == <<"5","6","1","/","6","7","0">>
sA13 == <<"A","1","3">>
sEmpty == <<>>
sFalse == <<"F","a","l","s","e">>
s750x == <<"7","5","0","/">>

RowOf(k) ==
    CASE k = "blank" -> <<>>
      [] k = "sect"  -> <<Cell(sGroup)>>
      [] k = "note"  -> <<Cell(sNote)>>
      [] k = "pn1"   -> <<Cell(sPlateName), Cell(sP1)>>
      [] k = "pn2"   -> <<Cell(sPlateName), Cell(sP2)>>
      [] k = "pn0"   -> <<Cell(sPlateName)>>
      [] k = "pnX"   -> <<Cell(sPlateName), Cell(sP1), Cell(sNm)>>
      [] k = "pnL"   -> <<Cell(sPlateName), Cell(sTwoLines)>>
      [] k = "mtX"   -> <<Cell(sMeasurementType), Cell(sBogus)>>
      [] k = "wd"    -> <<Cell(sWellData)>>
      [] k = "wdM"   -> <<Cell(sMethod), Cell(sAllWELLDATA)>>
      [] k = "m1"    -> <<Cell(sMethod), Cell(sAbs)>>
      [] k = "m2"    -> <<Cell(sMethod), Cell(sFl)>>
      [] k = "m3"    -> <<Cell(sMethod), Cell(sTwoLines), Cell(sNm)>>
      [] k = "bar"   -> <<Cell(sBarcode)>>
      [] k = "mtK"   -> <<Cell(sMeasurementType), Cell(sKinetic)>>
      [] k = "mtE"   -> <<Cell(sMeasurementType), Cell(sEndpoint)>>
      [] k = "mtS"   -> <<Cell(sMeasurementType), Cell(sSpectrumScan)>>
      [] k = "rtOK"  -> <<Cell(sReadTime), Cell(sGoodTime)>>
      [] k = "rtBad" -> <<Cell(sReadTime), Cell(sBadTime)>>
      [] k = "wcBad" -> <<Cell(sWellCount), Cell(s48Wells)>>
      [] k = "exs"   -> <<Cell(sExcitationSweep), Cell(sTrue)>>
      [] k = "ems"   -> <<Cell(sEmissionStart), Cell(s525)>>
      [] k = "khdr"  -> <<Cell(sCycleSecondsWell), Cell(sTemperature), Cell(sA1), Cell(sA2)>>
      [] k = "kd0"   -> <<Cell(s0), Cell(s25), Cell(s01), Cell(s02)>>
      [] k = "kd30"  -> <<Cell(s30), ICell(s2, sError), Cell(s04)>>
      [] k = "shdr"  -> <<Cell(sWavelengthWell), Cell(sA1), Cell(sA2)>>
      [] k = "sd350" -> <<Cell(s350), Cell(s01), Cell(s02)>>
      [] k = "ehdr"  -> <<Cell(sWavelengthExEm), Cell(s485x525), Cell(s1), Cell(s2)>>
      [] k = "edA"   -> <<Cell(sA), ICell(s3, s01), Cell(s04)>>
      [] k = "exst"  -> <<Cell(sExcitationStart), Cell(s485)>>
      [] k = "exsF"  -> <<Cell(sExcitationSweep), Cell(sFalse)>>
      [] k = "kd60"  -> <<Cell(s60), Cell(s25), Cell(sError), Cell(sError)>>
      [] k = "kdX"   -> <<Cell(sEmpty), Cell(s25), Cell(s01), Cell(s02)>>
      [] k = "shdrX" -> <<Cell(sWavelengthWell), Cell(sA13), Cell(sA2), Cell(sEmpty)>>
      [] k = "sd360" -> <<Cell(s360), Cell(sError), Cell(s04)>>
      [] k = "ehdr2" -> <<Cell(sWavelengthExEm), Cell(s561x670), Cell(s1), Cell(s2)>>
      [] k = "ehdrX" -> <<Cell(sWavelengthExEm), Cell(s485x525), Cell(s1), Cell(s13)>>
      [] k = "ehdrA" -> <<Cell(sWavelengthExEm), Cell(s750x), Cell(s1), Cell(s2)>>
      [] k = "edB"   -> <<Cell(sB), ICell(s3, sError), Cell(s02)>>
      [] k = "edI"   -> <<Cell(sI), ICell(s3, s02)>>

FreeKinds == {"blank", "sect", "note", "pn1", "pn2"}

RECURSIVE SeqsUpTo(_, _)
SeqsUpTo(S, n) ==
    IF n = 0 THEN {<<>>}
    ELSE LET shorter == SeqsUpTo(S, n - 1)
         IN  shorter \cup {Append(s, x) : s \in {t \in shorter : Len(t) = n - 1}, x \in S}

FreeDocs == SeqsUpTo(FreeKinds, MaxRows)

(***************************************************************************)
(* Navigation in the row stream (positions 1..Len(d); NoRow is None).      *)
(***************************************************************************)
\* row.find_previous("ss:Row")
FindPrevious(d, p) == IF p > 1 THEN p - 1 ELSE NoRow

\* row.find_next("ss:Row")
FindNext(d, p) == IF p < Len(d) THEN p + 1 ELSE NoRow

\* Tag.__eq__: the same tag, or a tag with equal name, attributes and contents
TagEq(d, p, q) ==
    IF p = NoRow \/ q = NoRow THEN p = q
    ELSE p = q \/ RowOf(d[p]) = RowOf(d[q])

\* plate_name_rows (spectramax.py:118-125)
RECURSIVE PlateNameRowsFrom(_, _)
PlateNameRowsFrom(d, p) ==
    IF p > Len(d) THEN <<>>
    ELSE (IF IsPlateStart(RowOf(d[p])) THEN <<p>> ELSE <<>>) \o PlateNameRowsFrom(d, p + 1)

PlateNameRows(d) == PlateNameRowsFrom(d, 1)

\* the while loop of _extract_plate_reader_xml (spectramax.py:181-184);
\* gives <<plate_reader_xml, current>> when the loop ends
RECURSIVE ExtractWalk(_, _, _, _)
ExtractWalk(d, xml, current, end_row) ==
    IF current # NoRow /\ ~TagEq(d, current, end_row)
    THEN LET nxt == FindNext(d, current)
         IN  ExtractWalk(d,
                         IF nxt # NoRow /\ ~TagEq(d, nxt, end_row)
                         THEN Append(xml, nxt) ELSE xml,
                         nxt, end_row)
    ELSE <<xml, current>>

\* the lines after the loop (spectramax.py:186-190), w being what the loop left
ExtractEnd(d, w, end_row, read_last_row) ==
    IF read_last_row /\ TagEq(d, w[2], end_row) THEN Append(w[1], end_row) ELSE w[1]

_extract_plate_reader_xml(d, start_row, end_row, read_last_row) ==
    ExtractEnd(d, ExtractWalk(d, <<start_row>>, start_row, end_row), end_row, read_last_row)

\* an iteration that takes every plate for the last one
SectionOfToLastRow(d, pnr, i) ==
    _extract_plate_reader_xml(d, FindPrevious(d, pnr[i]), Len(d), TRUE)

\* one iteration of the loop at spectramax.py:128-151
SectionOf(d, pnr, i) ==
    IF i < Len(pnr)
    THEN _extract_plate_reader_xml(d, FindPrevious(d, pnr[i]),
                                   FindPrevious(d, pnr[i + 1]), FALSE)
    ELSE _extract_plate_reader_xml(d, FindPrevious(d, pnr[i]), Len(d), TRUE)

\* the loop at spectramax.py:128-151 over plate_name_rows
SectionsOf(d, pnr) == [i \in 1..Len(pnr) |-> SectionOf(d, pnr, i)]

\* the loop taken from the last plate to the first
SectionsOfReversed(d, pnr) == [i \in 1..Len(pnr) |-> SectionOf(d, pnr, Len(pnr) + 1 - i)]

\* the sections in reverse document order
ListsOfPlateReaderXmlReversed(d) == SectionsOfReversed(d, PlateNameRows(d))

_get_lists_of_plate_reader_xml(d) == SectionsOf(d, PlateNameRows(d))

\* a check for plates that never finds the list empty
NothingToParseNever(lists_of_plate_reader_xml) == FALSE

\* `if not lists_of_plate_reader_xml` (spectramax.py:92)
NothingToParse(lists_of_plate_reader_xml) == lists_of_plate_reader_xml = <<>>

UnableToParse == "ValueError: Unable to parse any data from the plate reader"

(***************************************************************************)
(* _parse_plate_reader_xml: the metadata loop (spectramax.py:213-228).     *)
(* A metadata map is a function from keys to values.                       *)
(***************************************************************************)
EmptyHarvest ==
    [is_start_of_well_data |-> FALSE,
     metadata |-> <<>>,
     plate_measurements_xml_rows |-> <<>>]

\* a metadata map that keeps the first value of a key
PutIfAbsent(metadata, key, value) == metadata @@ (key :> value)

\* metadata[key] = value
Put(metadata, key, value) == (key :> value) @@ metadata

\* the marker test without lower()
HasWellDataMarkerExactCase(text) == Contains(text, sWellDataMarker)

\* "well data" in xml_row.text.lower()
HasWellDataMarker(text) == Contains(Lower(text), sWellDataMarker)

\* key, *value = lines; metadata[key] = "".join(value)
HarvestLines(h, marked, lines) ==
    [h EXCEPT !.is_start_of_well_data = marked,
              !.metadata = Put(h.metadata, Head(lines), Join(Tail(lines)))]

\* a row read as metadata, text being xml_row.text
HarvestText(h, text) == HarvestLines(h, HasWellDataMarker(text), Split(Strip(text), NL))

\* the body of the loop for the row at position p of document d
HarvestStep(d, h, p) ==
    IF p = NoRow THEN h
    ELSE IF ~h.is_start_of_well_data THEN HarvestText(h, RowText(RowOf(d[p])))
    ELSE [h EXCEPT !.plate_measurements_xml_rows = Append(@, p)]

RECURSIVE HarvestFrom(_, _, _)
HarvestFrom(d, h, rest) ==
    IF rest = <<>> THEN h ELSE HarvestFrom(d, HarvestStep(d, h, Head(rest)), Tail(rest))

\* the state of the loop after the whole section
Harvest(d, plate_reader_xml) == HarvestFrom(d, EmptyHarvest, plate_reader_xml)

(***************************************************************************)
(* microplate.py: PlateType and Well.  A Well is [row, column].            *)
(***************************************************************************)
PLATE_96 == 96
PLATE_384 == 384

\* PlateType(well_count)
PlateType(n) == IF n \in {PLATE_96, PLATE_384} THEN Ok(n) ELSE Raise("ValueError")

LastRow96 == 8      \* "H"
LastColumn96 == 12
LastRow384 == 16    \* "P"
LastColumn384 == 24

\* a Well that checks the column only
WellOfAnyRow(row, column, plate_type) ==
    IF plate_type = PLATE_96 /\ (column < 1 \/ column > LastColumn96)
    THEN Raise("ValueError")
    ELSE IF plate_type = PLATE_384 /\ (column < 1 \/ column > LastColumn384)
    THEN Raise("ValueError")
    ELSE Ok([row |-> row, column |-> column])

\* Well(row, column, plate_type) with __post_init__; row is text, column an int
Well(row, column, plate_type) ==
    LET r == IF Len(row) = 1 THEN LetterPos(row[1], UpperLetters) ELSE 0
    IN  IF r = 0 THEN Raise("ValueError")
        ELSE IF plate_type = PLATE_96
                /\ (r > LastRow96 \/ column < 1 \/ column > LastColumn96)
             THEN Raise("ValueError")
        ELSE IF plate_type = PLATE_384
                /\ (r > LastRow384 \/ column < 1 \/ column > LastColumn384)
             THEN Raise("ValueError")
        ELSE Ok([row |-> row, column |-> column])

\* Well.from_string once int(well_id[1:]) is known
WellOfColumn(well_id, column, plate_type) ==
    IF ~IsOk(column) THEN Raise("ValueError")
    ELSE Well(<<UpperChar(well_id[1])>>, column.value, plate_type)

\* Well.from_string(well_id, plate_type)
WellFromString(well_id, plate_type) ==
    IF Len(well_id) < 2 THEN Raise("ValueError")
    ELSE WellOfColumn(well_id, PyInt(Tail(well_id)), plate_type)

\* f"{n:d}"
RECURSIVE IntText(_)
IntText(n) == IF n < 10 THEN <<Digits[n + 1]>> ELSE IntText(n \div 10) \o <<Digits[(n % 10) + 1]>>

\* a rendering without padding: f"{self.row}{self.column}"
WellStrUnpadded(w) == w.row \o IntText(w.column)

\* Well.__str__: f"{self.row}{self.column:02d}"
WellStr(w) == w.row \o (IF w.column < 10 THEN <<"0">> ELSE <<>>) \o IntText(w.column)

(***************************************************************************)
(* datetime.strptime(text, "%m/%d/%Y %H:%M:%S"): month/day/year, a run of  *)
(* whitespace, hour:minute:second; one or two digits per field (four for   *)
(* the year), each in its range, the day within the month.                 *)
(***************************************************************************)
IsNumberField(t, maxLen) ==
    /\ Len(t) >= 1 /\ Len(t) <= maxLen
    /\ \A i \in 1..Len(t) : IsDigit(t[i])

IsLeapYear(y) == (y % 4 = 0 /\ y % 100 # 0) \/ y % 400 = 0

DaysInMonth(m, y) ==
    IF m = 2 THEN (IF IsLeapYear(y) THEN 29 ELSE 28)
    ELSE IF m \in {4, 6, 9, 11} THEN 30 ELSE 31

\* the datetime of the six numbers, if they are a date and a time
TimeOfFields(mo, dy, yr, hr, mi, se) ==
    IF /\ mo \in 1..12 /\ yr >= 1 /\ dy \in 1..DaysInMonth(mo, yr)
       /\ hr \in 0..23 /\ mi \in 0..59 /\ se \in 0..59
    THEN Ok([month |-> mo, day |-> dy, year |-> yr,
             hour |-> hr, minute |-> mi, second |-> se])
    ELSE Raise("ValueError")

\* date is the text split at "/", time the text split at ":"
TimeOfDateTime(date, time) ==
    IF /\ Len(date) = 3 /\ Len(time) = 3
       /\ IsNumberField(date[1], 2) /\ IsNumberField(date[2], 2)
       /\ IsNumberField(date[3], 4) /\ Len(date[3]) = 4
       /\ \A i \in 1..3 : IsNumberField(time[i], 2)
    THEN TimeOfFields(DigitsValue(date[1], 0), DigitsValue(date[2], 0),
                      DigitsValue(date[3], 0), DigitsValue(time[1], 0),
                      DigitsValue(time[2], 0), DigitsValue(time[3], 0))
    ELSE Raise("ValueError")

\* halves is the text split at its runs of spaces
TimeOfHalves(text, halves) ==
    IF /\ Len(halves) = 2
       /\ text # <<>> /\ text[1] # " " /\ text[Len(text)] # " "
    THEN TimeOfDateTime(Split(halves[1], "/"), Split(halves[2], ":"))
    ELSE Raise("ValueError")

StrpTime(text) == TimeOfHalves(text, SelectSeq(Split(text, " "), LAMBDA t : t # <<>>))

(***************************************************************************)
(* The measurement-type parsers.  A table (DataFrame) is [columns, rows],  *)
(* rows being records over the columns, in the order they were emitted.    *)
(***************************************************************************)

\* x in list
InList(x, list) == \E i \in 1..Len(list) : list[i] = x

\* row_str_data
RowStrData(row) == [i \in 1..Len(row) |-> RemoveNewlines(CellText(row[i]))]

\* row_str_indices
RowStrIndices(row) == [i \in 1..Len(row) |-> row[i].index]

\* the aligned row, filled being the outcome of forward_fill_indices
AlignFilled(row, filled) ==
    IF ~IsOk(filled) THEN filled
    ELSE Ok([data |-> RowStrData(row), indices |-> filled.value])

\* start being the outcome of int(row_str_indices[0]), or 0
AlignFrom(row, start) ==
    IF ~IsOk(start) THEN start
    ELSE AlignFilled(row, forward_fill_indices(RowStrIndices(row), start.value))

\* the first lines of every row loop: row_str_data and row_int_indices
AlignRow(row) ==
    IF row = <<>> THEN Raise("IndexError")
    ELSE AlignFrom(row, IF row[1].index # None THEN PyInt(row[1].index) ELSE Ok(0))

\* a from_records that gives the columns to an empty list of records too
FromRecordsWithColumns(plate_measurements, columns) ==
    [columns |-> columns, rows |-> plate_measurements]

\* pd.DataFrame.from_records(plate_measurements)
FromRecords(plate_measurements, columns) ==
    IF plate_measurements = <<>> THEN [columns |-> <<>>, rows |-> <<>>]
    ELSE [columns |-> columns, rows |-> plate_measurements]

\* the table of a finished row loop, or the exception that ended the loop
TableOf(done, columns) ==
    IF ~IsOk(done) THEN done
    ELSE Ok(FromRecords(done.value.plate_measurements, columns))

\* the state of a row loop before its first row: no header mapping is bound yet
NoHeaderYet ==
    [bound |-> FALSE, mapping |-> <<>>, wavelengths_nm |-> <<>>, plate_measurements |-> <<>>]

\* an entry of a dict comprehension: of two entries with one key the later stays
BindEntry(later, key, outcome) ==
    IF IsOk(outcome) /\ key \notin DOMAIN later THEN Put(later, key, outcome.value)
    ELSE later

\* index_to_well of a header row (spectramax.py:376-382, 422-428)
RECURSIVE IndexToWell(_, _, _, _)
IndexToWell(indices, data, plate_type, j) ==
    IF j > Len(indices) \/ j > Len(data) THEN <<>>
    ELSE BindEntry(IndexToWell(indices, data, plate_type, j + 1),
                   indices[j], WellFromString(data[j], plate_type))

\* a record list that loses the rest of the row after a cell without a number
WellRecordOrEndOfRow(well, v, axis, rest) ==
    IF ~IsOk(v) THEN v
    ELSE IF ~IsOk(rest) THEN rest
    ELSE Ok(<<[well_row |-> well.row,
               well_column |-> well.column,
               well_id |-> WellStr(well),
               value |-> v.value] @@ axis>>
            \o (IF v.value.kind = "nan" THEN <<>> ELSE rest.value))

\* plate_measurements.append({...}) for a well, v being value_to_float(data)
WellRecord(well, v, axis, rest) ==
    IF ~IsOk(v) THEN v
    ELSE IF ~IsOk(rest) THEN rest
    ELSE Ok(<<[well_row |-> well.row,
               well_column |-> well.column,
               well_id |-> WellStr(well),
               value |-> v.value] @@ axis>> \o rest.value)

\* the records of one data row of a SpectrumScan or Kinetic plate from cell j on
RECURSIVE WellRowRecords(_, _, _, _, _)
WellRowRecords(indices, data, mapping, axis, j) ==
    IF j > Len(indices) \/ j > Len(data) THEN Ok(<<>>)
    ELSE IF indices[j] \notin DOMAIN mapping
         THEN WellRowRecords(indices, data, mapping, axis, j + 1)
    ELSE WellRecord(mapping[indices[j]], value_to_float(data[j]), axis,
                    WellRowRecords(indices, data, mapping, axis, j + 1))

\* the records of a row put before those of the rows above it
PrependRecords(st, recs) ==
    IF ~IsOk(recs) THEN recs
    ELSE Ok([st EXCEPT !.plate_measurements = recs.value \o @])

\* plate_measurements after the records of a row
AppendRecords(st, recs) ==
    IF ~IsOk(recs) THEN recs
    ELSE Ok([st EXCEPT !.plate_measurements = @ \o recs.value])

\* a data row of a SpectrumScan or Kinetic plate: x is float(row_str_data[0]),
\* variable_field the field it goes to, constant_axis the other axis fields
WellDataRow(st, a, x, variable_field, constant_axis) ==
    IF ~IsOk(x) THEN x
    ELSE IF ~st.bound THEN Raise("UnboundLocalError")
    ELSE AppendRecords(st, WellRowRecords(a.indices, a.data, st.mapping,
                                          (variable_field :> x.value) @@ constant_axis, 1))

\* the body of the row loop shared by the SpectrumScan and the Kinetic parser,
\* a being the aligned row
WellAlignedRow(st, a, plate_type, marker, variable_field, constant_axis) ==
    IF ~IsOk(a) THEN a
    ELSE IF InList(marker, a.value.data)
    THEN Ok([st EXCEPT !.bound = TRUE,
                       !.mapping = IndexToWell(a.value.indices, a.value.data, plate_type, 1)])
    ELSE WellDataRow(st, a.value, PyFloat(a.value.data[1]), variable_field, constant_axis)

WellHeaderRow(st, row, plate_type, marker, variable_field, constant_axis) ==
    WellAlignedRow(st, AlignRow(row), plate_type, marker, variable_field, constant_axis)

\* the row loop: the state after the last row, or the exception that ended it
RECURSIVE WellHeaderRows(_, _, _, _, _, _)
WellRowsAfter(next, rows, plate_type, marker, variable_field, constant_axis) ==
    IF ~IsOk(next) THEN next
    ELSE WellHeaderRows(next.value, rows, plate_type, marker, variable_field, constant_axis)

WellHeaderRows(st, rows, plate_type, marker, variable_field, constant_axis) ==
    IF rows = <<>> THEN Ok(st)
    ELSE WellRowsAfter(WellHeaderRow(st, Head(rows), plate_type, marker,
                                     variable_field, constant_axis),
                       Tail(rows), plate_type, marker, variable_field, constant_axis)

WellColumns == <<"well_row", "well_column", "well_id", "value">>

\* metadata.get(key)
Get(metadata, key) == IF key \in DOMAIN metadata THEN metadata[key] ELSE None

\* float(metadata.get(key)): float(None) is a TypeError
FloatOfMetadata(metadata, key) ==
    IF Get(metadata, key) = None THEN Raise("TypeError") ELSE PyFloat(Get(metadata, key))

\* the row loop of a spectrum scan and its table
SpectrumScanOf(rows, plate_type, is_excitation_sweep, constant_wavelength_nm) ==
    IF ~IsOk(constant_wavelength_nm) THEN constant_wavelength_nm
    ELSE TableOf(WellHeaderRows(NoHeaderYet, rows, plate_type, sWavelengthWell,
                                IF is_excitation_sweep THEN "excitation_nm" ELSE "emission_nm",
                                (IF is_excitation_sweep THEN "emission_nm" ELSE "excitation_nm")
                                    :> constant_wavelength_nm.value),
                 WellColumns \o (IF is_excitation_sweep
                                 THEN <<"excitation_nm", "emission_nm">>
                                 ELSE <<"emission_nm", "excitation_nm">>))

\* the constant wavelength (spectramax.py:356-366) and then the row loop
SpectrumScanSweep(rows, metadata, plate_type, is_excitation_sweep) ==
    SpectrumScanOf(rows, plate_type, is_excitation_sweep,
                   FloatOfMetadata(metadata, IF is_excitation_sweep
                                             THEN sEmissionStart ELSE sExcitationStart))

\* a parser that takes any "Excitation sweep" value for an excitation sweep
SpectrumScanOfAnyFlag(rows, metadata, plate_type) ==
    SpectrumScanSweep(rows, metadata, plate_type, Get(metadata, sExcitationSweep) # None)

_parse_spectrum_scan_measurements(rows, metadata, plate_type) ==
    SpectrumScanSweep(rows, metadata, plate_type, Get(metadata, sExcitationSweep) = sTrue)

_parse_kinetic_measurements(rows, metadata, plate_type) ==
    TableOf(WellHeaderRows(NoHeaderYet, rows, plate_type, sCycleSecondsWell, "time_s", <<>>),
            WellColumns \o <<"time_s">>)

\* a mapping keyed by the header cell's own index
RECURSIVE IndexToWellColumnSameIndex(_, _, _)
IndexToWellColumnSameIndex(indices, data, j) ==
    IF j > Len(indices) THEN <<>>
    ELSE BindEntry(IndexToWellColumnSameIndex(indices, data, j + 1), indices[j], PyInt(data[j]))

\* index_to_well_column of an Endpoint header row (spectramax.py:297-302)
RECURSIVE IndexToWellColumn(_, _, _)
IndexToWellColumn(indices, data, j) ==
    IF j > Len(indices) THEN <<>>
    ELSE BindEntry(IndexToWellColumn(indices, data, j + 1), indices[j] + 1, PyInt(data[j]))

\* re.search(r"(\d+)", text): the first run of digits, None without one
RECURSIVE FirstDigitRun(_)
FirstDigitRun(text) ==
    IF text = <<>> THEN None
    ELSE IF IsDigit(Head(text))
         THEN SubSeq(text, 1, ScanPlainDigits(text, 1) - 1)
         ELSE FirstDigitRun(Tail(text))

\* float(match.group(1)) if match else np.nan
WavelengthOf(match) == IF match = None THEN NaN ELSE PyFloat(match).value

WavelengthsOf(wavelengths_str) ==
    [i \in 1..Len(wavelengths_str) |-> WavelengthOf(FirstDigitRun(wavelengths_str[i]))]

\* the wavelengths in the other order
WavelengthsNmReversed(text) ==
    [i \in 1..Len(Split(text, "/")) |->
        WavelengthsOf(Split(text, "/"))[Len(Split(text, "/")) + 1 - i]]

\* wavelengths_nm of an Endpoint header row (spectramax.py:305-312)
WavelengthsNm(text) == WavelengthsOf(Split(text, "/"))

\* plate_measurements.append({...}) for an Endpoint cell
EndpointRecord(well, v, wavelengths_nm, rest) ==
    IF ~IsOk(well) THEN well
    ELSE IF ~IsOk(v) THEN v
    ELSE IF Len(wavelengths_nm) < 2 THEN Raise("IndexError")
    ELSE IF ~IsOk(rest) THEN rest
    ELSE Ok(<<[well_row |-> well.value.row,
               well_column |-> well.value.column,
               well_id |-> WellStr(well.value),
               value |-> v.value,
               excitation_nm |-> wavelengths_nm[1],
               emission_nm |-> wavelengths_nm[2]]>> \o rest.value)

\* the records of one Endpoint data row from cell j on (spectramax.py:318-330)
RECURSIVE EndpointRowRecords(_, _, _, _, _)
EndpointRowRecords(a, st, well_row, plate_type, j) ==
    IF j > Len(a.indices) THEN Ok(<<>>)
    ELSE IF a.indices[j] \notin DOMAIN st.mapping
         THEN EndpointRowRecords(a, st, well_row, plate_type, j + 1)
    ELSE EndpointRecord(Well(well_row, st.mapping[a.indices[j]], plate_type),
                        value_to_float(a.data[j]), st.wavelengths_nm,
                        EndpointRowRecords(a, st, well_row, plate_type, j + 1))

\* the body of the row loop of _parse_endpoint_measurements, a being the aligned row
EndpointAlignedRow(st, a, plate_type) ==
    IF ~IsOk(a) THEN a
    ELSE IF InList(sWavelengthExEm, a.value.data)
    THEN IF Len(a.value.data) < 2 THEN Raise("IndexError")
         ELSE Ok([st EXCEPT !.bound = TRUE,
                            !.mapping = IndexToWellColumn(a.value.indices, a.value.data, 1),
                            !.wavelengths_nm = WavelengthsNm(a.value.data[2])])
    ELSE IF Len(a.value.data) < 2 THEN Ok(st)
    ELSE IF ~st.bound THEN Raise("UnboundLocalError")
    ELSE AppendRecords(st, EndpointRowRecords(a.value, st, a.value.data[1], plate_type, 2))

EndpointRow(st, row, plate_type) == EndpointAlignedRow(st, AlignRow(row), plate_type)

RECURSIVE EndpointRows(_, _, _)
EndpointRowsAfter(next, rows, plate_type) ==
    IF ~IsOk(next) THEN next ELSE EndpointRows(next.value, rows, plate_type)

EndpointRows(st, rows, plate_type) ==
    IF rows = <<>> THEN Ok(st)
    ELSE EndpointRowsAfter(EndpointRow(st, Head(rows), plate_type), Tail(rows), plate_type)

_parse_endpoint_measurements(rows, plate_type) ==
    TableOf(EndpointRows(NoHeaderYet, rows, plate_type),
            WellColumns \o <<"excitation_nm", "emission_nm">>)

(***************************************************************************)
(* Post-processing (spectramax.py:262).                                    *)
(***************************************************************************)
FloatColumns == {"value", "excitation_nm", "emission_nm", "time_s"}

\* pandas' isna of the value of column c
IsNA(c, v) == c \in FloatColumns /\ v.kind = "nan"

\* a dropna that drops no row
DropNoRows(table) ==
    IF ~InList("value", table.columns) THEN Raise("KeyError") ELSE Ok(table)

\* dataframe.dropna(axis=0, how="any", subset="value")
DropRowsWithoutValue(table) ==
    IF ~InList("value", table.columns) THEN Raise("KeyError")
    ELSE Ok([table EXCEPT !.rows = SelectSeq(@, LAMBDA r : ~IsNA("value", r.value))])

\* the table with the columns keep only
KeepColumns(table, keep) ==
    [columns |-> keep,
     rows |-> [i \in 1..Len(table.rows) |->
                  [c \in {keep[j] : j \in 1..Len(keep)} |-> table.rows[i][c]]]]

\* dataframe.dropna(axis=1, how="all"): a column stays if some row has a value in it
DropEmptyColumns(table) ==
    KeepColumns(table,
                SelectSeq(table.columns,
                          LAMBDA c : \E i \in 1..Len(table.rows) : ~IsNA(c, table.rows[i][c])))

\* the second dropna, dropped being the outcome of the first
DropColumnsOf(dropped) ==
    IF ~IsOk(dropped) THEN dropped ELSE Ok(DropEmptyColumns(dropped.value))

PostProcess(table) == DropColumnsOf(DropRowsWithoutValue(table))

(***************************************************************************)
(* _parse_plate_reader_xml (spectramax.py:192-270) for the section         *)
(* plate_reader_xml of document d: Ok(MicroplateData) or the exception.    *)
(***************************************************************************)

UnknownMeasurementType == "ValueError: Unknown measurement type"

\* a dispatch that takes every unrecognized type for a Kinetic plate
ParseMeasurementsLenient(measurement_type, rows, metadata, plate_type) ==
    IF measurement_type = sEndpoint
    THEN _parse_endpoint_measurements(rows, plate_type)
    ELSE IF measurement_type = sSpectrumScan
    THEN _parse_spectrum_scan_measurements(rows, metadata, plate_type)
    ELSE _parse_kinetic_measurements(rows, metadata, plate_type)

\* the dispatch on the measurement type (spectramax.py:243-259)
ParseMeasurements(measurement_type, rows, metadata, plate_type) ==
    IF measurement_type = sEndpoint
    THEN _parse_endpoint_measurements(rows, plate_type)
    ELSE IF measurement_type = sSpectrumScan
    THEN _parse_spectrum_scan_measurements(rows, metadata, plate_type)
    ELSE IF measurement_type = sKinetic
    THEN _parse_kinetic_measurements(rows, metadata, plate_type)
    ELSE Raise(UnknownMeasurementType)

\* return MicroplateData(...), cleaned being the outcome of the two dropna
PlateOfCleaned(metadata, timestamp, plate_type, cleaned) ==
    IF ~IsOk(cleaned) THEN cleaned
    ELSE Ok([measurements |-> cleaned.value,
             name |-> IF sPlateName \in DOMAIN metadata THEN metadata[sPlateName] ELSE <<>>,
             timestamp |-> timestamp,
             plate_type |-> plate_type,
             metadata |-> metadata])

\* spectramax.py:262, dataframe being the outcome of the dispatch
PlateOfTable(metadata, timestamp, plate_type, dataframe) ==
    IF ~IsOk(dataframe) THEN dataframe
    ELSE PlateOfCleaned(metadata, timestamp, plate_type, PostProcess(dataframe.value))

\* spectramax.py:241-259, plate_type being the outcome of PlateType(well_count)
PlateOfType(metadata, rows, timestamp, plate_type) ==
    IF ~IsOk(plate_type) THEN plate_type
    ELSE PlateOfTable(metadata, timestamp, plate_type.value,
                      ParseMeasurements(Get(metadata, sMeasurementType), rows, metadata,
                                        plate_type.value))

\* spectramax.py:240, well_count being the outcome of line 239
PlateOfWellCount(metadata, rows, timestamp, well_count) ==
    IF ~IsOk(well_count) THEN well_count
    ELSE PlateOfType(metadata, rows, timestamp, PlateType(well_count.value))

\* spectramax.py:238-239, timestamp being the outcome of lines 233-237
PlateOfTimestamp(metadata, rows, timestamp) ==
    IF ~IsOk(timestamp) THEN timestamp
    ELSE PlateOfWellCount(metadata, rows, timestamp.value,
                          IF Get(metadata, sWellCount) # None
                          THEN PyInt(Head(Split(Get(metadata, sWellCount), " ")))
                          ELSE Ok(PLATE_96))

\* spectramax.py:230-237, metadata and rows being what the metadata loop left
PlateOfMetadata(metadata, rows) ==
    PlateOfTimestamp(metadata, rows,
                     IF Get(metadata, sReadTime) # None
                     THEN StrpTime(Get(metadata, sReadTime)) ELSE Ok(None))

\* h being the state of the metadata loop after the section
PlateOfHarvest(d, h) ==
    PlateOfMetadata(h.metadata,
                    [i \in 1..Len(h.plate_measurements_xml_rows) |->
                        RowOf(d[h.plate_measurements_xml_rows[i]])])

_parse_plate_reader_xml(d, plate_reader_xml) == PlateOfHarvest(d, Harvest(d, plate_reader_xml))

(***************************************************************************)
(* Values of the variables an operation does not use.                      *)
(***************************************************************************)
NoParse ==
    /\ doc = <<>>
    /\ sections = <<>>
    /\ nextPlate = 0
    /\ yielded = <<>>
    /\ returned = NoResult
    /\ failure = "none"
    /\ harvest = [pos |-> 0, state |-> EmptyHarvest]

NoCall ==
    /\ input = None
    /\ output = NoResult

NoHarvest == harvest = [pos |-> 0, state |-> EmptyHarvest]

parseVars == <<doc, sections, nextPlate, yielded, returned, failure, harvest>>

(***************************************************************************)
(* forward_fill_indices called on its own, on every sequence of at most    *)
(* MaxIndices optional index texts and every start up to MaxStart.         *)
(***************************************************************************)
IndexTexts == {<<"1">>, <<"3">>, <<"1","2">>}

InitFill ==
    /\ pc = "call"
    /\ input \in [str_indices : SeqsUpTo(IndexTexts \cup {None}, MaxIndices),
                  start : 0..MaxStart]
    /\ output = NoResult
    /\ NoParse

CallForwardFill ==
    /\ pc = "call"
    /\ output' = forward_fill_indices(input.str_indices, input.start)
    /\ pc' = "returned"
    /\ UNCHANGED <<input, parseVars>>

NextFill == CallForwardFill

SpecFill == InitFill /\ [][NextFill]_vars

\* the integer an explicit index text denotes
IndexValue(t) == PyInt(t).value

\* element j of the claimed result, given the result elements before it
FilledAsClaimed(idx, s, out) ==
    /\ Len(out) = Len(idx)
    /\ Len(out) >= 1 => out[1] = s
    /\ \A j \in 2..Len(out) :
          out[j] = IF idx[j] # None THEN IndexValue(idx[j]) ELSE out[j - 1] + 1

\* C6: for every sequence of N >= 0 optional indices and every start s,
\* forward_fill_indices returns exactly N integers: element 0 is s, a later
\* element with an explicit index equals it, one without equals the previous
\* result element plus 1.
C6_FillAsClaimed ==
    pc = "returned" =>
        /\ IsOk(output)
        /\ FilledAsClaimed(input.str_indices, input.start, output.value)

NonDecreasing(q) == \A j \in 2..Len(q) : q[j - 1] <= q[j]

\* the explicit indices of idx, in order of appearance
ExplicitIndices(idx) ==
    LET e == SelectSeq(idx, LAMBDA t : t # None)
    IN  [j \in 1..Len(e) |-> IndexValue(e[j])]

\* C7: whenever the explicit indices are non-decreasing in order of
\* appearance, the sequence forward_fill_indices returns is non-decreasing.
C7_MonotoneAsClaimed ==
    (pc = "returned" /\ NonDecreasing(ExplicitIndices(input.str_indices))) =>
        (IsOk(output) /\ NonDecreasing(output.value))

\* the last position before j that fixes the index: position 1 or an explicit index
Anchor(idx, j) == CHOOSE a \in 1..(j - 1) :
    /\ a = 1 \/ idx[a] # None
    /\ \A b \in (a + 1)..(j - 1) : idx[b] = None

\* the value forward filling has reached just before position j (j >= 2)
ReachedBefore(idx, s, j) ==
    LET a == Anchor(idx, j)
    IN  (IF a = 1 THEN s ELSE IndexValue(idx[a])) + (j - 1 - a)

\* no explicit index after the first element falls behind the filled positions
NeverBehind(idx, s) ==
    \A j \in 2..Len(idx) : idx[j] # None => IndexValue(idx[j]) >= ReachedBefore(idx, s, j)

\* C7 (amended): the returned sequence is non-decreasing whenever every
\* explicit index after the first element is at least the value forward
\* filling has reached just before it (the start or the previous explicit
\* index, plus the number of elements since).
C7_MonotoneWhenNeverBehind ==
    (pc = "returned" /\ NeverBehind(input.str_indices, input.start)) =>
        (IsOk(output) /\ NonDecreasing(output.value))

\* a call with explicit and absent indices after the first element has returned
C7_Witness ==
    /\ pc = "returned"
    /\ NeverBehind(input.str_indices, input.start)
    /\ Len(input.str_indices) >= 3
    /\ \E j \in 2..Len(input.str_indices) : input.str_indices[j] # None
    /\ \E j \in 2..Len(input.str_indices) : input.str_indices[j] = None

(***************************************************************************)
(* value_to_float called on its own, on every text of at most MaxFloatLen  *)
(* characters of FloatAlphabet and on the texts of FloatExamples.          *)
(***************************************************************************)
FloatAlphabet == {"1", "0", ".", "e", "-", "x", " "}

s0196 == <<"0",".","1","9","6">>
s12Em5 == <<"1",".","2","E","-","5">>
sA05 == <<"A","0","5">>
sPadded == <<" ","1","2",".","5","0","\n">>
sGrouped == <<"1","_","0","0","0">>
sNegInfinity == <<"-","I","n","f","i","n","i","t","y">>
sHuge == <<"1","e","4","0","0">>
sHugeDigits == <<"1","7","9","7","7","e","3","0","4">>
sLargest == <<"1",".","7","9","7","6","e","3","0","8">>
sTiny == <<"1","e","-","4","0","0">>

InfiniteTexts == {sInf, sNegInfinity, sHuge, sHugeDigits}

FloatExamples ==
    {s0196, sError, s12Em5, sA05, sPadded, sGrouped, sNan, sLargest, sTiny}
        \cup InfiniteTexts

InitFloat ==
    /\ pc = "call"
    /\ input \in SeqsUpTo(FloatAlphabet, MaxFloatLen) \cup FloatExamples
    /\ output = NoResult
    /\ NoParse

CallValueToFloat ==
    /\ pc = "call"
    /\ output' = value_to_float(input)
    /\ pc' = "returned"
    /\ UNCHANGED <<input, parseVars>>

NextFloat == CallValueToFloat

SpecFloat == InitFloat /\ [][NextFloat]_vars

\* characters that occur in number literals
IsNumberChar(c) == IsDigit(c) \/ IsSign(c) \/ IsSpace(c) \/ c \in {".", "e", "E", "_"}

\* the text has a character no number literal has, and is not inf, infinity or nan
IsLabel(text) ==
    /\ \E i \in 1..Len(text) : ~IsNumberChar(text[i])
    /\ LET w == Lower(Strip(text))
           u == IF w # <<>> /\ IsSign(w[1]) THEN Tail(w) ELSE w
       IN  u \notin {sInf, sInfinity, sNan}

\* the claimed values of the three texts the specification names
FloatExamplesAsClaimed ==
    /\ input = s0196 =>
          output.value = [kind |-> "finite", neg |-> FALSE,
                          digits |-> <<"1","9","6">>, order |-> 0]
    /\ input = sError => output.value = NaN
    /\ input = s12Em5 =>
          output.value = [kind |-> "finite", neg |-> FALSE,
                          digits |-> <<"1","2">>, order |-> 0 - 4]

\* C8: value_to_float is total on strings: for every string it returns a
\* finite number or the missing sentinel (NaN) and never raises; text that is
\* no valid number yields missing, valid numbers yield their value.
C8_FiniteOrMissing ==
    pc = "returned" =>
        /\ IsOk(output)
        /\ output.value.kind \in {"finite", "nan"}
        /\ (IsLabel(input) \/ input = <<>>) => output.value = NaN
        /\ FloatExamplesAsClaimed

\* C8 (amended): value_to_float never raises on a string and returns a
\* finite number, an infinity or the missing sentinel (NaN); an infinity is
\* returned only for the words inf/infinity and for literals too large for a
\* double; labels and empty text yield missing, valid numbers their value.
C8_FloatOrMissing ==
    pc = "returned" =>
        /\ IsOk(output)
        /\ output.value.kind \in {"finite", "inf", "nan"}
        /\ output.value.kind = "inf" <=> input \in InfiniteTexts
        /\ (IsLabel(input) \/ input = <<>>) => output.value = NaN
        /\ FloatExamplesAsClaimed

\* value_to_float has returned for a text that is no number
C8_Witness ==
    /\ pc = "returned"
    /\ input = sError
    /\ output = Ok(NaN)

(***************************************************************************)
(* The metadata loop run on its own, row by row, over every plate section  *)
(* of at most MaxMetaRows rows of MetaKinds, and over the section [None]   *)
(* that segmentation gives a plate whose start row opens the document.     *)
(***************************************************************************)
MetaKinds == {"blank", "m1", "m3", "bar", "wd", "wdM"}

InitMeta ==
    /\ pc = "harvest"
    /\ doc \in SeqsUpTo(MetaKinds, MaxMetaRows)
    /\ sections = << IF doc = <<>> THEN <<NoRow>> ELSE [i \in 1..Len(doc) |-> i] >>
    /\ nextPlate = 1
    /\ yielded = <<>>
    /\ returned = NoResult
    /\ failure = "none"
    /\ NoHarvest
    /\ NoCall

HarvestRow ==
    /\ pc = "harvest"
    /\ harvest.pos < Len(sections[nextPlate])
    /\ harvest' = [pos |-> harvest.pos + 1,
                   state |-> HarvestStep(doc, harvest.state,
                                         sections[nextPlate][harvest.pos + 1])]
    /\ UNCHANGED <<doc, pc, sections, nextPlate, yielded, returned, failure, input, output>>

HarvestEnd ==
    /\ pc = "harvest"
    /\ harvest.pos = Len(sections[nextPlate])
    /\ pc' = "harvested"
    /\ UNCHANGED <<doc, sections, nextPlate, yielded, returned, failure, harvest, input, output>>

NextMeta == HarvestRow \/ HarvestEnd

SpecMeta == InitMeta /\ [][NextMeta]_vars

\* the rows of the section the loop has read so far (None entries left out)
RowsRead == SelectSeq(SubSeq(sections[nextPlate], 1, harvest.pos), LAMBDA p : p # NoRow)

\* the row's text with surrounding whitespace removed
StrippedText(p) == Strip(RowText(RowOf(doc[p])))

\* position of the first newline of t, Len(t) + 1 without one
FirstNewline(t) ==
    IF \E i \in 1..Len(t) : t[i] = NL
    THEN CHOOSE i \in 1..Len(t) : t[i] = NL /\ \A j \in 1..(i - 1) : t[j] # NL
    ELSE Len(t) + 1

\* the first line of the row's text
KeyOf(p) == SubSeq(StrippedText(p), 1, FirstNewline(StrippedText(p)) - 1)

\* the remaining lines of the row's text, put together without a separator
ValueOf(p) ==
    RemoveNewlines(SubSeq(StrippedText(p), FirstNewline(StrippedText(p)) + 1,
                          Len(StrippedText(p))))

\* the row's text contains "well data" in some mix of cases
IsMarkerRow(p) ==
    LET t == RowText(RowOf(doc[p]))
    IN  \E i \in 0..(Len(t) - Len(sWellDataMarker)) :
           \A j \in 1..Len(sWellDataMarker) :
              t[i + j] = sWellDataMarker[j] \/ t[i + j] = UpperChar(sWellDataMarker[j])

\* number of rows read up to and including the first marker row (all without one)
MetadataRowCount ==
    IF \E i \in 1..Len(RowsRead) : IsMarkerRow(RowsRead[i])
    THEN CHOOSE i \in 1..Len(RowsRead) :
            IsMarkerRow(RowsRead[i]) /\ \A j \in 1..(i - 1) : ~IsMarkerRow(RowsRead[j])
    ELSE Len(RowsRead)

\* C9: after harvesting the metadata rows of a section the metadata map
\* holds, for each key (first line of a row's text), the value of the last
\* row carrying that key, each value being the row's remaining lines
\* concatenated with no separator; no other keys are present.
C9_LastWriteWins ==
    LET meta == harvest.state.metadata
        n == MetadataRowCount
    IN  /\ DOMAIN meta = {KeyOf(RowsRead[i]) : i \in 1..n}
        /\ \A i \in 1..n :
              (\A j \in (i + 1)..n : KeyOf(RowsRead[j]) # KeyOf(RowsRead[i]))
                  => meta[KeyOf(RowsRead[i])] = ValueOf(RowsRead[i])

\* the whole section is harvested, a key recurred and a value had several lines
C9_Witness ==
    /\ pc = "harvested"
    /\ \E i, j \in 1..MetadataRowCount :
          i < j /\ KeyOf(RowsRead[i]) = KeyOf(RowsRead[j])
                /\ ValueOf(RowsRead[i]) # ValueOf(RowsRead[j])
    /\ \E i \in 1..MetadataRowCount : doc[RowsRead[i]] = "m3"

\* C10 (state part): the rows up to and including the first marker row are
\* the metadata rows and never measurement rows; every row after it is a
\* measurement row; without a marker row there are no measurement rows.
C10_Partition ==
    /\ harvest.state.plate_measurements_xml_rows
           = SubSeq(RowsRead, MetadataRowCount + 1, Len(RowsRead))
    /\ harvest.state.is_start_of_well_data
           <=> \E i \in 1..Len(RowsRead) : IsMarkerRow(RowsRead[i])
    /\ DOMAIN harvest.state.metadata = {KeyOf(RowsRead[i]) : i \in 1..MetadataRowCount}

\* C10: within one plate section the first row whose text contains
\* "well data" (case-insensitively) is the last row added to the metadata
\* map; it and every row before it are metadata rows, every row after it is a
\* measurement row and never changes the metadata map, even if it contains
\* the marker again; without a marker row every row is metadata.
C10_WellDataSplits ==
    /\ []C10_Partition
    /\ [][harvest.state.is_start_of_well_data
             => harvest'.state.metadata = harvest.state.metadata]_vars

\* a section with two marker rows is harvested, the second one a measurement row
C10_Witness ==
    /\ pc = "harvested"
    /\ \E i \in 1..Len(harvest.state.plate_measurements_xml_rows) :
          IsMarkerRow(harvest.state.plate_measurements_xml_rows[i])
    /\ MetadataRowCount >= 2

(***************************************************************************)
(* parse(): list(generate_plate_measurements()), on every document of at   *)
(* most MaxRows rows of FreeKinds and on every document made of at most    *)
(* MaxPlates plate blocks.  A block is a header row, the "Plate name" row  *)
(* and the plate's metadata and measurement rows.                          *)
(***************************************************************************)
PlateBlocks ==
    { <<"sect", "pn1", "mtK", "wd", "khdr", "kd0", "kd30">>,
      <<"note", "pn2", "rtOK", "mtK", "wd", "khdr", "kd0">>,
      <<"blank", "pn1", "mtK", "wd", "khdr", "kd0">>,
      <<"blank", "pn2", "mtE", "wd", "ehdr", "edA">>,
      <<"sect", "pn1", "mtE", "wd", "ehdr", "edA">>,
      <<"note", "pn2", "mtS", "exs", "ems", "wd", "shdr", "sd350">>,
      <<"sect", "pn1", "mtX", "wd", "khdr", "kd0">>,
      <<"note", "pn2", "wd", "khdr", "kd0">>,
      <<"note", "pn2", "wcBad", "mtX", "wd">>,
      <<"sect", "pn1", "rtBad", "wd">>,
      <<"sect", "pn1", "mtE", "wd">> }

PlateDocs == {Join(blocks) : blocks \in SeqsUpTo(PlateBlocks, MaxPlates)}

Init ==
    /\ pc = "start"
    /\ doc \in FreeDocs \cup PlateDocs
    /\ sections = <<>>
    /\ nextPlate = 0
    /\ yielded = <<>>
    /\ returned = NoResult
    /\ failure = "none"
    /\ NoHarvest
    /\ NoCall

\* generate_plate_measurements up to its loop (spectramax.py:91-95)
Segment ==
    /\ pc = "start"
    /\ LET lists_of_plate_reader_xml == _get_lists_of_plate_reader_xml(doc)
       IN  IF NothingToParse(lists_of_plate_reader_xml)
           THEN /\ pc' = "failed"
                /\ failure' = UnableToParse
                /\ UNCHANGED <<sections, nextPlate>>
           ELSE /\ pc' = "segmented"
                /\ sections' = lists_of_plate_reader_xml
                /\ nextPlate' = 1
                /\ UNCHANGED failure
    /\ UNCHANGED <<doc, yielded, returned, harvest, input, output>>

\* a loop that passes over a plate whose parser raised and goes on
ParsePlateAndGoOn ==
    /\ pc = "segmented"
    /\ nextPlate <= Len(sections)
    /\ LET plate == _parse_plate_reader_xml(doc, sections[nextPlate])
       IN  IF IsOk(plate)
           THEN /\ yielded' = Append(yielded, plate.value)
                /\ UNCHANGED failure
           ELSE /\ failure' = plate.raised
                /\ UNCHANGED yielded
    /\ nextPlate' = nextPlate + 1
    /\ UNCHANGED <<doc, pc, sections, returned, harvest, input, output>>

\* one turn of the loop at spectramax.py:97-98: the next record is yielded and
\* list() appends it, or the exception of its parser ends parse()
ParsePlate ==
    /\ pc = "segmented"
    /\ nextPlate <= Len(sections)
    /\ LET plate == _parse_plate_reader_xml(doc, sections[nextPlate])
       IN  IF IsOk(plate)
           THEN /\ yielded' = Append(yielded, plate.value)
                /\ nextPlate' = nextPlate + 1
                /\ UNCHANGED <<pc, failure>>
           ELSE /\ pc' = "failed"
                /\ failure' = plate.raised
                /\ UNCHANGED <<yielded, nextPlate>>
    /\ UNCHANGED <<doc, sections, returned, harvest, input, output>>

\* the generator is exhausted and parse() returns the list (spectramax.py:79)
Return ==
    /\ pc = "segmented"
    /\ nextPlate > Len(sections)
    /\ pc' = "done"
    /\ returned' = yielded
    /\ UNCHANGED <<doc, sections, nextPlate, yielded, failure, harvest, input, output>>

Next == Segment \/ ParsePlate \/ Return

Spec == Init /\ [][Next]_vars

(***************************************************************************)
(* What the document says about its plates, read off the row stream alone. *)
(***************************************************************************)
\* the text of the first data cell of the row at position p, None without one
FirstDataText(p) ==
    LET row == RowOf(doc[p])
    IN  IF \E c \in 1..Len(row) : row[c].data # None
        THEN row[CHOOSE c \in 1..Len(row) :
                    row[c].data # None /\ \A b \in 1..(c - 1) : row[b].data = None].data
        ELSE None

\* the positions of the plate-start rows
PlateStarts == {p \in 1..Len(doc) : FirstDataText(p) = sPlateName}

NumPlates == Cardinality(PlateStarts)

\* the i-th plate-start row in document order
PlateStart(i) == CHOOSE p \in PlateStarts : Cardinality({q \in PlateStarts : q <= p}) = i

\* the row immediately preceding the i-th plate-start row (NoRow if it opens the document)
HeaderRow(i) == PlateStart(i) - 1

\* the last row of plate i: the row before the next plate's header row, or the last row
LastRowOf(i) == IF i < NumPlates THEN HeaderRow(i + 1) - 1 ELSE Len(doc)

\* segmentation has run on a document with at least one plate-start row
Segmented == pc # "start" /\ NumPlates >= 1

InSection(i, p) == \E j \in 1..Len(sections[i]) : sections[i][j] = p

RowsFromTo(a, b) == [j \in 1..(b - a + 1) |-> a + j - 1]

\* C2: section i is exactly the contiguous run of rows from the header row
\* of plate i up to and excluding the header row of plate i+1, for the final
\* plate through the last row of the document, whatever the rows contain.
C2_ContiguousSections ==
    Segmented =>
        /\ Len(sections) = NumPlates
        /\ \A i \in 1..NumPlates :
              HeaderRow(i) # NoRow => sections[i] = RowsFromTo(HeaderRow(i), LastRowOf(i))

\* no row of the document has a plate-start row
NoPlateStart == PlateStarts = {}

\* C3: for a document with zero plate-start rows parse ends in the
\* whole-document failure (ValueError: unable to parse) and never returns an
\* empty list or any other result.
C3_NoPlatesFails ==
    (pc # "start" /\ NoPlateStart) =>
        /\ pc = "failed"
        /\ failure = UnableToParse
        /\ returned = NoResult
        /\ yielded = <<>>

\* parse has run on a document that has rows but no plate-start row
C3_Witness ==
    /\ pc = "failed"
    /\ NoPlateStart
    /\ Len(doc) >= 2

\* the "Measurement type" value the metadata of plate i holds, None without one
MeasurementTypeOf(i) == Get(Harvest(doc, sections[i]).metadata, sMeasurementType)

UnknownType(i) == MeasurementTypeOf(i) \notin {sEndpoint, sSpectrumScan, sKinetic}

\* parse has ended one way or the other
Ended == pc \in {"done", "failed"}

WellFormedFields(i) ==
    LET metadata == Harvest(doc, sections[i]).metadata
    IN  /\ sReadTime \in DOMAIN metadata => IsOk(StrpTime(metadata[sReadTime]))
        /\ sWellCount \in DOMAIN metadata =>
              /\ IsOk(PyInt(Head(Split(metadata[sWellCount], " "))))
              /\ PyInt(Head(Split(metadata[sWellCount], " "))).value \in {PLATE_96, PLATE_384}

PlateNameOf(i) == ValueOf(PlateStart(i))

\* C5: when parse succeeds on a document with k plate-start rows it returns
\* exactly k plate records, the i-th being the one of the i-th plate in
\* document order: its name is the value of that plate's "Plate name" row.
C5_RecordsInDocumentOrder ==
    pc = "done" =>
        /\ Len(returned) = NumPlates
        /\ \A i \in 1..Len(returned) : returned[i].name = PlateNameOf(i)

\* parse returned the records of two plates with different names
C5_Witness ==
    /\ pc = "done"
    /\ Len(returned) = 2
    /\ returned[1].name = sP1
    /\ returned[2].name = sP2

(***************************************************************************)
(* parse() on every one-plate document whose plate has one of the three    *)
(* measurement types, metadata with or without the optional fields, and at *)
(* most MaxMeasRows measurement rows of the kinds of its type: header rows *)
(* (regular ones, one with an out-of-range well or column, one with a      *)
(* single wavelength), data rows (regular ones, with non-numeric cells,    *)
(* with an empty leading cell, with a row letter outside the plate) and    *)
(* empty rows, in any order.                                               *)
(***************************************************************************)
MaxMeasRows == 3

KineticKinds == {"khdr", "kd0", "kd30", "kd60", "kdX", "blank"}
EndpointKinds == {"ehdr", "ehdr2", "ehdrX", "ehdrA", "edA", "edB", "edI"}
SpectrumScanKinds == {"shdr", "shdrX", "sd350", "sd360"}

KineticMetadata == {<<"mtK">>, <<"rtOK", "mtK">>}
EndpointMetadata == {<<"mtE">>}
SpectrumScanMetadata ==
    {<<"mtS", "exs", "ems", "exst">>, <<"mtS", "exsF", "ems", "exst">>,
     <<"mtS", "exst">>, <<"mtS", "exs">>, <<"mtS">>}

\* the rows of a plate after its "Plate name" row
MeasuredPlate(metadata, kinds) ==
    {m \o <<"wd">> \o r : m \in metadata, r \in SeqsUpTo(kinds, MaxMeasRows)}

MeasuredDocs ==
    {<<"sect", "pn1">> \o b :
        b \in MeasuredPlate(KineticMetadata, KineticKinds)
              \cup MeasuredPlate(EndpointMetadata, EndpointKinds)
              \cup MeasuredPlate(SpectrumScanMetadata, SpectrumScanKinds)}

InitPlate ==
    /\ pc = "start"
    /\ doc \in MeasuredDocs
    /\ sections = <<>>
    /\ nextPlate = 0
    /\ yielded = <<>>
    /\ returned = NoResult
    /\ failure = "none"
    /\ NoHarvest
    /\ NoCall

SpecPlate == InitPlate /\ [][Next]_vars

(***************************************************************************)
(* What a one-plate document declares, read off its rows alone.  t is the  *)
(* declared measurement type, m the sequence of the measurement rows, a    *)
(* cell of them is named by its row i in m and its place c in the row.     *)
(***************************************************************************)
\* the first row whose text contains "well data": the last metadata row
WellDataPos ==
    CHOOSE p \in 1..Len(doc) : IsMarkerRow(p) /\ \A q \in 1..(p - 1) : ~IsMarkerRow(q)

\* some metadata row has this key
Declared(key) == \E p \in 1..WellDataPos : KeyOf(p) = key

\* the value of the last metadata row with this key
DeclaredValue(key) ==
    ValueOf(CHOOSE p \in 1..WellDataPos :
               KeyOf(p) = key /\ \A q \in (p + 1)..WellDataPos : KeyOf(q) # key)

DeclaredType == IF Declared(sMeasurementType) THEN DeclaredValue(sMeasurementType) ELSE None

\* the measurement rows: the rows after the last metadata row
MeasRows == [i \in 1..(Len(doc) - WellDataPos) |-> RowOf(doc[WellDataPos + i])]

\* the text that marks a header row of type t
HeaderMarker(t) ==
    CASE t = sEndpoint -> sWavelengthExEm
      [] t = sSpectrumScan -> sWavelengthWell
      [] t = sKinetic -> sCycleSecondsWell
      [] OTHER -> None

\* the text of a cell ("" for a cell without data)
DataOf(cell) == IF cell.data = None THEN <<>> ELSE cell.data

IsHeaderRow(row, t) == \E c \in 1..Len(row) : DataOf(row[c]) = HeaderMarker(t)

IsDataRow(row, t) == row # <<>> /\ ~IsHeaderRow(row, t)

\* a plain decimal number: digits with at most one point
IsDecimal(text) ==
    /\ \E i \in 1..Len(text) : IsDigit(text[i])
    /\ \A i \in 1..Len(text) : IsDigit(text[i]) \/ text[i] = "."
    /\ Cardinality({i \in 1..Len(text) : text[i] = "."}) <= 1

\* the number a decimal text denotes
NumberOf(text) == PyFloat(text).value

IsDigits(text) == text # <<>> /\ \A i \in 1..Len(text) : IsDigit(text[i])

\* the reconciled index of cell c of a row: its explicit index, else one more
\* than the cell before it, else 0 for the first cell
RECURSIVE ReconciledIndex(_, _)
ReconciledIndex(row, c) ==
    IF row[c].index # None THEN IndexValue(row[c].index)
    ELSE IF c = 1 THEN 0
    ELSE ReconciledIndex(row, c - 1) + 1

\* the last header row before row i of m, 0 without one
HeaderBefore(m, t, i) ==
    IF \E h \in 1..(i - 1) : IsHeaderRow(m[h], t)
    THEN CHOOSE h \in 1..(i - 1) :
            IsHeaderRow(m[h], t) /\ \A g \in (h + 1)..(i - 1) : ~IsHeaderRow(m[g], t)
    ELSE 0

\* the row number of a row letter of a 96-well plate, 0 for any other text
RowNumber(text) ==
    IF Len(text) = 1 /\ LetterPos(text[1], UpperLetters) \in 1..LastRow96
    THEN LetterPos(text[1], UpperLetters) ELSE 0

\* the column a text of digits names on a 96-well plate, 0 for any other text
ColumnNumber(text) ==
    IF IsDigits(text) /\ IndexValue(text) \in 1..LastColumn96 THEN IndexValue(text) ELSE 0

\* a well-ID of a 96-well plate: a row letter of either case and a column number
IsWellId(text) ==
    Len(text) >= 2 /\ RowNumber(<<UpperChar(text[1])>>) > 0 /\ ColumnNumber(Tail(text)) > 0

\* cell d of a header row names a well of the plate (a column of the plate in
\* an Endpoint header, whose first two cells are the marker and the wavelengths)
NamesWell(header, d, t) ==
    IF t = sEndpoint THEN d >= 3 /\ ColumnNumber(DataOf(header[d])) > 0
    ELSE IsWellId(DataOf(header[d]))

\* the distance between the index of a header cell and the index of the data
\* cells below it: an Endpoint data cell sits one index after the header cell
\* of its column
HeaderOffset(t) == IF t = sEndpoint THEN 1 ELSE 0

\* the cells of a header row that name a well and lie off indices before
\* cell c of a data row
HeaderCells(header, row, c, t, off) ==
    {d \in 1..Len(header) :
        NamesWell(header, d, t)
            /\ ReconciledIndex(header, d) + off = ReconciledIndex(row, c)}

\* the last of them
HeaderCell(header, row, c, t, off) ==
    CHOOSE d \in HeaderCells(header, row, c, t, off) :
        \A e \in HeaderCells(header, row, c, t, off) : e <= d

\* cell c of row i lies under a well of the last header row before it
IsPaired(m, t, off, i, c) ==
    /\ HeaderBefore(m, t, i) # 0
    /\ HeaderCells(m[HeaderBefore(m, t, i)], m[i], c, t, off) # {}

\* the non-leading cells of the data rows that lie under a well of their header
Paired(m, t, off) ==
    {ic \in UNION {{<<i, c>> : c \in 2..Len(m[i])} : i \in 1..Len(m)} :
        IsDataRow(m[ic[1]], t) /\ IsPaired(m, t, off, ic[1], ic[2])}

\* no earlier row has the content of the document's last row, so the walk of
\* _extract_plate_reader_xml, which compares rows by content, reaches the end
\* of the plate and the section is the whole document
LastRowUnlike == \A p \in 1..(Len(doc) - 1) : RowOf(doc[p]) # RowOf(doc[Len(doc)])

\* a measurement row with nothing irregular but the wells its header may
\* name: it has two cells or more, a header starts with its marker (and
\* declares two wavelengths for Endpoint), a data row starts with a number (a
\* row letter of the plate for Endpoint)
PlainRow(row, t) ==
    /\ Len(row) >= 2
    /\ IF IsHeaderRow(row, t)
       THEN /\ DataOf(row[1]) = HeaderMarker(t)
            /\ t = sEndpoint =>
                  /\ Len(Split(DataOf(row[2]), "/")) = 2
                  /\ \A i \in 1..2 : IsDigits(Split(DataOf(row[2]), "/")[i])
       ELSE IF t = sEndpoint THEN RowNumber(DataOf(row[1])) > 0
            ELSE IsDecimal(DataOf(row[1]))

\* a header row comes first, every row is plain and some data cell lies under
\* a well of its header
PlainRows(m, t) ==
    /\ Len(m) >= 2
    /\ IsHeaderRow(m[1], t)
    /\ \A i \in 1..Len(m) : PlainRow(m[i], t)
    /\ Paired(m, t, HeaderOffset(t)) # {}

\* an Endpoint header names only columns of the plate
RegularRow(row, t) ==
    (IsHeaderRow(row, t) /\ t = sEndpoint) =>
        \A c \in 3..Len(row) : ColumnNumber(DataOf(row[c])) > 0

\* measurement rows with nothing irregular
RegularRows(m, t) == PlainRows(m, t) /\ \A i \in 1..Len(m) : RegularRow(m[i], t)

RegularPlate == LastRowUnlike /\ RegularRows(MeasRows, DeclaredType)

\* C11: missing optional metadata never fails a plate: on a plate with regular
\* measurement rows parse returns a record, whose timestamp is absent if
\* "Read Time" is absent and whose plate size is 96 if "Well count" is
\* absent, also when a SpectrumScan plate lacks the wavelength bound it needs.
C11_MissingMetadataNeverFails ==
    (Ended /\ RegularPlate) =>
        /\ pc = "done"
        /\ Len(returned) = 1
        /\ ~Declared(sReadTime) => returned[1].timestamp = None
        /\ ~Declared(sWellCount) => returned[1].plate_type = PLATE_96

\* the metadata of a SpectrumScan plate declares the wavelength bound it needs
HasWavelengthBound ==
    DeclaredType = sSpectrumScan =>
        IF Declared(sExcitationSweep) /\ DeclaredValue(sExcitationSweep) = sTrue
        THEN Declared(sEmissionStart)
        ELSE Declared(sExcitationStart)

\* C12: parse fails only on a document without plate-start row or on a plate
\* with an unrecognized measurement type: on every other document it reaches
\* done and returns one record per plate, whatever irregular rows or cells
\* the measurement sections contain.
C12_OnlyTwoFailures ==
    (/\ Ended
     /\ NumPlates >= 1
     /\ DeclaredType \in {sEndpoint, sSpectrumScan, sKinetic}
     /\ HasWavelengthBound
     /\ LastRowUnlike) =>
        /\ pc = "done"
        /\ Len(returned) = NumPlates

\* the well a paired cell lies under: the well its header cell names, for
\* Endpoint the row of the data row's letter and the column the header names
WellUnder(header, row, c, t, off) ==
    IF t = sEndpoint
    THEN [row |-> DataOf(row[1]),
          column |-> ColumnNumber(DataOf(header[HeaderCell(header, row, c, t, off)]))]
    ELSE [row |-> <<UpperChar(DataOf(header[HeaderCell(header, row, c, t, off)])[1])>>,
          column |-> ColumnNumber(Tail(DataOf(header[HeaderCell(header, row, c, t, off)])))]

WellOfCell(m, t, off, ic) == WellUnder(m[HeaderBefore(m, t, ic[1])], m[ic[1]], ic[2], t, off)

TextOfCell(m, ic) == DataOf(m[ic[1]][ic[2]])

\* the paired cells whose text is a number, and those whose text is not
NumericCells(m, t, off) == {ic \in Paired(m, t, off) : IsDecimal(TextOfCell(m, ic))}

NonNumericCells(m, t, off) == {ic \in Paired(m, t, off) : ~IsDecimal(TextOfCell(m, ic))}

\* the records of the final table for a well with a value
RecordsOf(rows, well, value) ==
    {k \in 1..Len(rows) :
        /\ rows[k].well_row = well.row
        /\ rows[k].well_column = well.column
        /\ rows[k].well_id = WellStr(well)
        /\ rows[k].value = value}

\* the final table has one record for every cell of the set, with the cell's
\* well and literal number, and no other record
RecordsAreCells(rows, m, t, off, cells) ==
    /\ Len(rows) = Cardinality(cells)
    /\ \A ic \in cells :
          Cardinality(RecordsOf(rows, WellOfCell(m, t, off, ic), NumberOf(TextOfCell(m, ic))))
              = Cardinality({jd \in cells :
                               /\ WellOfCell(m, t, off, jd) = WellOfCell(m, t, off, ic)
                               /\ NumberOf(TextOfCell(m, jd)) = NumberOf(TextOfCell(m, ic))})

\* C13: a data cell under a well whose text is not a number affects only
\* itself: a plate whose rows are regular but for such cells does not fail,
\* and the final table of a parsed plate has exactly one record, with the
\* well and the literal number, for every cell under a well whose text is a
\* number, in the row of the non-numeric cell as in every other row.
C13_NonNumericCellOnlyItself ==
    /\ (Ended /\ RegularPlate /\ HasWavelengthBound) => pc = "done"
    /\ (pc = "done" /\ LastRowUnlike) =>
          RecordsAreCells(returned[1].measurements.rows, MeasRows, DeclaredType,
                          HeaderOffset(DeclaredType),
                          NumericCells(MeasRows, DeclaredType, HeaderOffset(DeclaredType)))

\* a regular plate is parsed that has a non-numeric cell under a well, a
\* numeric cell in the same row and a numeric cell in another row
C13_Witness ==
    /\ pc = "done"
    /\ RegularPlate
    /\ \E ic \in NonNumericCells(MeasRows, DeclaredType, HeaderOffset(DeclaredType)) :
          \E jd, ke \in NumericCells(MeasRows, DeclaredType, HeaderOffset(DeclaredType)) :
             jd[1] = ic[1] /\ ke[1] # ic[1]
    /\ Len(returned[1].measurements.rows) >= 2

\* some header cell after the marker names no well of the plate
HasInvalidToken(m, t) ==
    \E i \in 1..Len(m) :
        /\ IsHeaderRow(m[i], t)
        /\ \E d \in (IF t = sEndpoint THEN 3 ELSE 2)..Len(m[i]) : ~NamesWell(m[i], d, t)

\* C14: a header cell whose token is no valid well of the plate (other text,
\* empty text, a well-ID out of range, for Endpoint a column number out of
\* range) is skipped: a plate whose rows are regular but for such tokens does
\* not fail, neither at the header row nor at the data rows below it, and the
\* cells below such a token give no record.
C14_InvalidTokenSkipped ==
    (/\ Ended
     /\ LastRowUnlike
     /\ HasWavelengthBound
     /\ PlainRows(MeasRows, DeclaredType)) =>
        /\ pc = "done"
        /\ RecordsAreCells(returned[1].measurements.rows, MeasRows, DeclaredType,
                           HeaderOffset(DeclaredType),
                           NumericCells(MeasRows, DeclaredType, HeaderOffset(DeclaredType)))

\* the records the type parser emits for the plate, before post-processing
EmittedRows ==
    ParseMeasurements(DeclaredType, MeasRows, Harvest(doc, sections[1]).metadata,
                      PLATE_96).value.rows

\* the records with a well
RecordsOfWell(rows, well) ==
    {k \in 1..Len(rows) :
        /\ rows[k].well_row = well.row
        /\ rows[k].well_column = well.column
        /\ rows[k].well_id = WellStr(well)}

\* every cell of the set gives one record, with the cell's well, and there is
\* no other record
RecordsOfCells(rows, m, t, off, cells) ==
    /\ Len(rows) = Cardinality(cells)
    /\ \A ic \in cells :
          Cardinality(RecordsOfWell(rows, WellOfCell(m, t, off, ic)))
              = Cardinality({jd \in cells :
                               WellOfCell(m, t, off, jd) = WellOfCell(m, t, off, ic)})

\* C15: in each of the three parsers a non-leading data cell with reconciled
\* index j gives a record exactly when the most recent header row has a well
\* (or well-column) cell with the same reconciled index j, the record's well
\* being the one that header cell names; other cells give no record.
C15_SameIndexAsHeader ==
    (pc = "done" /\ LastRowUnlike) =>
        RecordsOfCells(EmittedRows, MeasRows, DeclaredType, 0,
                       Paired(MeasRows, DeclaredType, 0))

\* C15 (amended): when the plate is parsed, a non-leading data cell with
\* reconciled index j gives a record exactly when the most recent header row
\* has a cell naming a well of the plate with reconciled index j
\* (SpectrumScan, Kinetic) or a cell naming a column of the plate with
\* reconciled index j - 1 (Endpoint), the record's well being the one that
\* header cell names; other cells give no record.
C15_IndexUnderHeader ==
    (pc = "done" /\ LastRowUnlike) =>
        RecordsOfCells(EmittedRows, MeasRows, DeclaredType, HeaderOffset(DeclaredType),
                       Paired(MeasRows, DeclaredType, HeaderOffset(DeclaredType)))

\* an Endpoint plate is parsed in which two data cells lie under a column of
\* the header, one cell index after the header cell
C15_Witness ==
    /\ pc = "done"
    /\ LastRowUnlike
    /\ DeclaredType = sEndpoint
    /\ Cardinality(Paired(MeasRows, DeclaredType, 1)) >= 2
    /\ Len(returned[1].measurements.rows) >= 2

\* the record of a cell under a well: its well, its literal number and the
\* axis values of its row
RecordOfCell(m, t, off, ic, axis) ==
    [well_row |-> WellOfCell(m, t, off, ic).row,
     well_column |-> WellOfCell(m, t, off, ic).column,
     well_id |-> WellStr(WellOfCell(m, t, off, ic)),
     value |-> NumberOf(TextOfCell(m, ic))] @@ axis

\* the two numbers the second cell of a header row declares
DeclaresPair(header) ==
    /\ Len(header) >= 2
    /\ Len(Split(DataOf(header[2]), "/")) = 2
    /\ \A i \in 1..2 : IsDigits(Split(DataOf(header[2]), "/")[i])

DeclaredPair(header) ==
    [excitation_nm |-> NumberOf(Split(DataOf(header[2]), "/")[1]),
     emission_nm |-> NumberOf(Split(DataOf(header[2]), "/")[2])]

\* the records of an Endpoint plate: one per numeric cell under a well, with
\* the pair of the last header row before the cell's row
EndpointRecords(m) ==
    {RecordOfCell(m, sEndpoint, 1, ic, DeclaredPair(m[HeaderBefore(m, sEndpoint, ic[1])])) :
        ic \in NumericCells(m, sEndpoint, 1)}

\* the rows of a table as a set
RowSet(rows) == {rows[k] : k \in 1..Len(rows)}

SweepsExcitation == Declared(sExcitationSweep) /\ DeclaredValue(sExcitationSweep) = sTrue

\* the wavelengths of a SpectrumScan record of row i: the swept one is the
\* leading cell of the row, the other one the metadata bound
SweptAxis(m, i, sweeps_excitation, bound) ==
    IF sweeps_excitation
    THEN [excitation_nm |-> NumberOf(DataOf(m[i][1])), emission_nm |-> bound]
    ELSE [excitation_nm |-> bound, emission_nm |-> NumberOf(DataOf(m[i][1]))]

SpectrumScanRecords(m, sweeps_excitation, bound) ==
    {RecordOfCell(m, sSpectrumScan, 0, ic, SweptAxis(m, ic[1], sweeps_excitation, bound)) :
        ic \in NumericCells(m, sSpectrumScan, 0)}

\* C17: in the final table of a SpectrumScan plate, if "Excitation sweep" is
\* exactly "True" every record has emission_nm equal to the metadata
\* "Emission start" and excitation_nm equal to the leading cell of its data
\* row; for any other or absent flag every record has excitation_nm equal to
\* the metadata "Excitation start" and emission_nm equal to the leading cell.
C17_SweepFlag ==
    (pc = "done" /\ LastRowUnlike /\ DeclaredType = sSpectrumScan) =>
        RowSet(returned[1].measurements.rows)
            = SpectrumScanRecords(MeasRows, SweepsExcitation,
                                  NumberOf(DeclaredValue(IF SweepsExcitation
                                                         THEN sEmissionStart
                                                         ELSE sExcitationStart)))

\* a SpectrumScan plate with both bounds and a flag other than "True" is
\* parsed, with records of two data rows
C17_Witness ==
    /\ pc = "done"
    /\ LastRowUnlike
    /\ DeclaredType = sSpectrumScan
    /\ Declared(sExcitationSweep) /\ ~SweepsExcitation
    /\ Declared(sEmissionStart) /\ Declared(sExcitationStart)
    /\ \E j, k \in 1..Len(returned[1].measurements.rows) :
          /\ returned[1].measurements.rows[j].emission_nm
                # returned[1].measurements.rows[k].emission_nm
          /\ returned[1].measurements.rows[j].excitation_nm
                = NumberOf(DeclaredValue(sExcitationStart))

\* the values of a sequence in order of first appearance
RECURSIVE Distinct(_)
Distinct(q) ==
    IF q = <<>> THEN <<>>
    ELSE LET before == Distinct(SubSeq(q, 1, Len(q) - 1))
         IN  IF \E k \in 1..Len(before) : before[k] = q[Len(q)]
             THEN before ELSE Append(before, q[Len(q)])

\* the time_s values of a table, row by row
TimesOf(rows) == [k \in 1..Len(rows) |-> rows[k].time_s]

\* the places in m of the data rows of a Kinetic plate, in document order
KineticDataRows(m) ==
    SelectSeq([i \in 1..Len(m) |-> i], LAMBDA i : IsDataRow(m[i], sKinetic))

\* the declared cycle times: the numbers of the leading cells of the rows
CycleTimes(m, places) == [k \in 1..Len(places) |-> NumberOf(DataOf(m[places[k]][1]))]

\* the data rows with a numeric cell under a well
MeasuredRows(m, places) ==
    SelectSeq(places, LAMBDA i : \E ic \in NumericCells(m, sKinetic, 0) : ic[1] = i)

KineticRecords(m) ==
    {RecordOfCell(m, sKinetic, 0, ic, [time_s |-> NumberOf(DataOf(m[ic[1]][1]))]) :
        ic \in NumericCells(m, sKinetic, 0)}

\* C18: the distinct time_s values of the final table of a Kinetic plate, in
\* order of first appearance, are exactly the leading-cell values of the
\* plate's data rows in document order, none missing and none added, and
\* each record's value is the literal number of the source cell at that well
\* and time.
C18_AllCycleTimes ==
    (pc = "done" /\ LastRowUnlike /\ DeclaredType = sKinetic) =>
        /\ Distinct(TimesOf(returned[1].measurements.rows))
              = Distinct(CycleTimes(MeasRows, KineticDataRows(MeasRows)))
        /\ RowSet(returned[1].measurements.rows) = KineticRecords(MeasRows)

\* C18 (amended): the distinct time_s values of the final table of a Kinetic
\* plate, in order of first appearance, are exactly the leading-cell values
\* of those data rows that have a numeric cell under a well, in document
\* order; each record's value is the literal number of the source cell at
\* that well and time.
C18_MeasuredCycleTimes ==
    (pc = "done" /\ LastRowUnlike /\ DeclaredType = sKinetic) =>
        /\ Distinct(TimesOf(returned[1].measurements.rows))
              = Distinct(CycleTimes(MeasRows, MeasuredRows(MeasRows, KineticDataRows(MeasRows))))
        /\ RowSet(returned[1].measurements.rows) = KineticRecords(MeasRows)

\* a Kinetic plate is parsed whose two data rows declare different cycle
\* times, one of them without a numeric cell under a well: the table has the
\* time of the other row only
C18_Witness ==
    /\ pc = "done"
    /\ LastRowUnlike
    /\ DeclaredType = sKinetic
    /\ Len(Distinct(CycleTimes(MeasRows, KineticDataRows(MeasRows)))) = 2
    /\ Len(MeasuredRows(MeasRows, KineticDataRows(MeasRows))) = 1
    /\ Len(Distinct(TimesOf(returned[1].measurements.rows))) = 1
    /\ Len(returned[1].measurements.rows) = 2

\* the non-leading cells of the rows from row i on, row by row, cell by cell
RECURSIVE CellsFrom(_, _)
CellsFrom(m, i) ==
    IF i > Len(m) THEN <<>>
    ELSE [k \in 1..(IF m[i] = <<>> THEN 0 ELSE Len(m[i]) - 1) |-> <<i, k + 1>>]
         \o CellsFrom(m, i + 1)

\* the numeric cells under a well, in document order
CellsInOrder(m, t, off) ==
    SelectSeq(CellsFrom(m, 1), LAMBDA ic : ic \in NumericCells(m, t, off))

\* the wells and values of a sequence of cells
WellValuesOf(m, t, off, cells) ==
    [k \in 1..Len(cells) |->
        [well_id |-> WellStr(WellOfCell(m, t, off, cells[k])),
         value |-> NumberOf(TextOfCell(m, cells[k]))]]

\* no row lacks a value, no column is missing in every row
CleanTable(table) ==
    /\ \A k \in 1..Len(table.rows) :
          /\ DOMAIN table.rows[k] = {table.columns[j] : j \in 1..Len(table.columns)}
          /\ "value" \in DOMAIN table.rows[k]
          /\ table.rows[k].value.kind # "nan"
    /\ \A j \in 1..Len(table.columns) :
          table.columns[j] \in FloatColumns =>
              \E k \in 1..Len(table.rows) : table.rows[k][table.columns[j]].kind # "nan"

\* C19: in the table of every record parse returns no row has a missing
\* value, no remaining column is missing in every row, and the rows are in
\* the order of their source cells in the document, row by row and cell by
\* cell.
C19_CleanTableInOrder ==
    (pc = "done" /\ LastRowUnlike) =>
        /\ CleanTable(returned[1].measurements)
        /\ [k \in 1..Len(returned[1].measurements.rows) |->
               [well_id |-> returned[1].measurements.rows[k].well_id,
                value |-> returned[1].measurements.rows[k].value]]
              = WellValuesOf(MeasRows, DeclaredType, HeaderOffset(DeclaredType),
                             CellsInOrder(MeasRows, DeclaredType, HeaderOffset(DeclaredType)))

\* a plate is parsed whose table lost the record of a non-numeric cell and
\* the emission_nm column, missing in every record, and kept three records
C19_Witness ==
    /\ pc = "done"
    /\ LastRowUnlike
    /\ NonNumericCells(MeasRows, DeclaredType, HeaderOffset(DeclaredType)) # {}
    /\ Len(returned[1].measurements.rows) = 3
    /\ returned[1].measurements.columns
          = <<"well_row", "well_column", "well_id", "value", "excitation_nm">>

(***************************************************************************)
(* Post-processing (spectramax.py:262) on its own: applied to every table  *)
(* of at most MaxRecords Endpoint records with a value and an emission     *)
(* wavelength that may be missing, and then once more to its own result.   *)
(***************************************************************************)
MaxRecords == 3

RecordExamples ==
    {[well_row |-> sA, well_column |-> c, well_id |-> WellStr([row |-> sA, column |-> c]),
      value |-> v, excitation_nm |-> PyFloat(s485).value, emission_nm |-> e] :
        c \in 1..2, v \in {NaN, PyFloat(s01).value}, e \in {NaN, PyFloat(s525).value}}

TableExamples ==
    {FromRecords(r, WellColumns \o <<"excitation_nm", "emission_nm">>) :
        r \in SeqsUpTo(RecordExamples, MaxRecords) \ {<<>>}}

InitPost ==
    /\ pc = "call"
    /\ input \in TableExamples
    /\ output = <<>>
    /\ NoParse

\* dataframe.dropna(...).dropna(...) on the table
PostProcessOnce ==
    /\ pc = "call"
    /\ output' = <<PostProcess(input)>>
    /\ pc' = "once"
    /\ UNCHANGED <<input, parseVars>>

\* the same on the table the first application returned
PostProcessTwice ==
    /\ pc = "once"
    /\ IsOk(output[1])
    /\ output' = Append(output, PostProcess(output[1].value))
    /\ pc' = "twice"
    /\ UNCHANGED <<input, parseVars>>

NextPost == PostProcessOnce \/ PostProcessTwice

SpecPost == InitPost /\ [][NextPost]_vars

\* C20: post-processing is idempotent: on every table it can be applied to,
\* also one in which every value is missing, a second application to its own
\* result succeeds and gives the same table as the first.
C20_Idempotent ==
    pc = "twice" => (IsOk(output[2]) /\ output[2].value = output[1].value)

(***************************************************************************)
(* Well on its own (microplate.py:28-93): Well(row, column, plate_type)    *)
(* for every row text of RowTexts, every column from -1 to MaxColumn and   *)
(* both plate types, Well.from_string for every text of at most MaxIdLen   *)
(* characters of IdAlphabet, and then str() of the well made and           *)
(* from_string of that text.                                               *)
(***************************************************************************)
MaxColumn == 26
MaxIdLen == 3

RowTexts == {<<"A">>, <<"H">>, <<"I">>, <<"P">>, <<"Q">>, <<"Z">>, <<"a">>, <<"1">>,
             <<"A", "B", "C">>, <<>>, None}

IdAlphabet == {"A", "P", "Q", "a", "0", "1", "2", "3", "+", " "}

InitWell ==
    /\ pc = "call"
    /\ input \in [op : {"Well"}, row : RowTexts, column : (0 - 1)..MaxColumn,
                  plate_type : {PLATE_96, PLATE_384}]
                 \cup [op : {"from_string"}, well_id : SeqsUpTo(IdAlphabet, MaxIdLen),
                       plate_type : {PLATE_96, PLATE_384}]
    /\ output = NoResult
    /\ NoParse

\* Well(row, column, plate_type)
CallWell ==
    /\ pc = "call"
    /\ input.op = "Well"
    /\ output' = Well(input.row, input.column, input.plate_type)
    /\ pc' = "made"
    /\ UNCHANGED <<input, parseVars>>

\* Well.from_string(well_id, plate_type)
CallFromString ==
    /\ pc = "call"
    /\ input.op = "from_string"
    /\ output' = WellFromString(input.well_id, input.plate_type)
    /\ pc' = "made"
    /\ UNCHANGED <<input, parseVars>>

\* str(well) of the well made, and Well.from_string of that text
RenderWell ==
    /\ pc = "made"
    /\ IsOk(output)
    /\ output' = [well |-> output.value,
                  text |-> WellStr(output.value),
                  again |-> WellFromString(WellStr(output.value), input.plate_type)]
    /\ pc' = "rendered"
    /\ UNCHANGED <<input, parseVars>>

NextWell == CallWell \/ CallFromString \/ RenderWell

SpecWell == InitWell /\ [][NextWell]_vars

\* the rows and columns of a plate
RowLetters(plate_type) ==
    IF plate_type = PLATE_96 THEN {"A", "B", "C", "D", "E", "F", "G", "H"}
    ELSE {"A", "B", "C", "D", "E", "F", "G", "H", "I", "J", "K", "L", "M", "N", "O", "P"}

ColumnNumbers(plate_type) == IF plate_type = PLATE_96 THEN 1..12 ELSE 1..24

\* a single letter of the plate's rows and a column of the plate
ValidWell(row, column, plate_type) ==
    /\ row # None
    /\ Len(row) = 1
    /\ row[1] \in RowLetters(plate_type)
    /\ column \in ColumnNumbers(plate_type)

\* the text is an integer as int() reads it: a sign or none, then digits,
\* single underscores between them allowed, blanks around allowed
IsIntegerBody(t) ==
    /\ t # <<>>
    /\ \A i \in 1..Len(t) : IsDigit(t[i]) \/ t[i] = "_"
    /\ IsDigit(t[1]) /\ IsDigit(t[Len(t)])
    /\ \A i \in 1..(Len(t) - 1) : ~(t[i] = "_" /\ t[i + 1] = "_")

Unsigned(t) == IF t # <<>> /\ t[1] \in {"+", "-"} THEN Tail(t) ELSE t

IsIntegerText(text) == IsIntegerBody(Unsigned(Strip(text)))

IntegerOf(text) ==
    (IF Strip(text)[1] = "-" THEN 0 - 1 ELSE 1)
        * DigitsValue(SelectSeq(Unsigned(Strip(text)), IsDigit), 0)

\* the row and column a call asks for: those given, or for from_string the
\* first character in upper case and the integer the rest denotes
AskedRow == IF input.op = "Well" THEN input.row ELSE <<UpperChar(input.well_id[1])>>

AskedColumn == IF input.op = "Well" THEN input.column ELSE IntegerOf(Tail(input.well_id))

\* the call names a row and a column at all
WellAsked ==
    input.op = "from_string" => (Len(input.well_id) >= 2 /\ IsIntegerText(Tail(input.well_id)))

\* C21: Well construction, directly or through Well.from_string, succeeds
\* exactly when the row is a single letter A-H and the column an integer
\* 1-12 for a 96-well plate, or A-P and 1-24 for a 384-well plate; every
\* other combination is rejected with a ValueError and no Well is made.
C21_WellValidated ==
    pc = "made" =>
        IF WellAsked /\ ValidWell(AskedRow, AskedColumn, input.plate_type)
        THEN IsOk(output) /\ output.value = [row |-> AskedRow, column |-> AskedColumn]
        ELSE output = Raise("ValueError")

\* from_string made the last well of a 96-well plate's first row from a text
\* with a lower-case row letter
C21_Witness ==
    /\ pc = "made"
    /\ input.op = "from_string"
    /\ input.well_id = <<"a", "1", "2">>
    /\ input.plate_type = PLATE_96
    /\ output = Ok([row |-> <<"A">>, column |-> 12])

\* the row letter followed by the column in two digits
TwoDigitForm(w) == w.row \o <<Digits[(w.column \div 10) + 1], Digits[(w.column % 10) + 1]>>

\* C22: every valid Well renders as its row letter followed by its column
\* zero-padded to two digits, and rendering round-trips: from_string of the
\* rendered text, for the same plate size, has the same row and column; so
\* from_string of an unpadded form ("A1") renders to the padded form ("A01").
C22_RenderRoundTrip ==
    pc = "rendered" =>
        /\ ValidWell(output.well.row, output.well.column, input.plate_type)
        /\ output.text = TwoDigitForm(output.well)
        /\ output.again = Ok(output.well)
        /\ (input.op = "from_string" /\ Len(input.well_id) = 2 /\ IsDigit(input.well_id[2]))
              => output.text = <<UpperChar(input.well_id[1]), "0", input.well_id[2]>>

\* the well made from "A1" rendered as "A01", and from_string of "A01" made
\* the same well
C22_Witness ==
    /\ pc = "rendered"
    /\ input.op = "from_string"
    /\ input.well_id = <<"A", "1">>
    /\ output.text = <<"A", "0", "1">>
    /\ output.again = Ok([row |-> <<"A">>, column |-> 1])

(***************************************************************************)
(* parse() on two documents of two plates each that differ in the rows of  *)
(* one plate only: doc is the first document, input the second one and the *)
(* plate that differs; returned and output are what parse() gives on each. *)
(***************************************************************************)
\* the loop of generate_plate_measurements consumed by list() (spectramax.py:97-98)
RECURSIVE ParseFrom(_, _, _, _)
ParseFrom(d, lists_of_plate_reader_xml, i, plates) ==
    IF i > Len(lists_of_plate_reader_xml) THEN Ok(plates)
    ELSE LET plate == _parse_plate_reader_xml(d, lists_of_plate_reader_xml[i])
         IN  IF IsOk(plate)
             THEN ParseFrom(d, lists_of_plate_reader_xml, i + 1, Append(plates, plate.value))
             ELSE plate

\* generate_plate_measurements from its segmentation on
GenerateFrom(d, lists_of_plate_reader_xml) ==
    IF NothingToParse(lists_of_plate_reader_xml) THEN Raise(UnableToParse)
    ELSE ParseFrom(d, lists_of_plate_reader_xml, 1, <<>>)

\* parse(): list(self.generate_plate_measurements())
parse(d) == GenerateFrom(d, _get_lists_of_plate_reader_xml(d))

FirstBlocks ==
    { <<"sect", "pn1", "mtE", "wd", "ehdr", "edA", "note", "edB">>,
      <<"sect", "pn1", "mtK", "wd", "khdr", "kd0", "kd30">>,
      <<"note", "pn1", "mtK", "wd", "khdr", "kd0", "kd60">>,
      <<"blank", "pn1", "mtE", "wd", "ehdr", "edA", "edB">> }

SecondBlocks ==
    { <<"blank", "pn2", "mtK", "wd", "khdr", "kd0">>,
      <<"sect", "pn2", "mtK", "wd", "khdr", "kd0", "kd30">>,
      <<"note", "pn2", "mtE", "wd", "ehdr", "edA">>,
      <<"note", "pn2", "mtS", "exs", "ems", "wd", "shdr", "sd350">>,
      <<"note", "pn2", "mtX", "wd", "khdr", "kd0">> }

PairDocs == {first \o second : first \in FirstBlocks, second \in SecondBlocks}

\* the positions of the plate-start rows of d
PlateStartsOf(d) == {p \in 1..Len(d) : IsPlateStart(RowOf(d[p]))}

\* the rows of d that belong to its j-th plate: from the row before the
\* plate-start row to the row before the next plate's header row
RowsOfPlate(d, j) ==
    LET starts == PlateStartsOf(d)
        start == CHOOSE p \in starts : Cardinality({q \in starts : q <= p}) = j
        later == {p \in starts : p > start}
    IN  IF later = {} THEN (start - 1)..Len(d)
        ELSE (start - 1)..((CHOOSE p \in later : \A q \in later : p <= q) - 2)

\* d and e have their plate-start rows at the same positions and differ only
\* in rows of plate j
DifferInPlate(d, e, j) ==
    /\ PlateStartsOf(d) = PlateStartsOf(e)
    /\ j \in 1..Cardinality(PlateStartsOf(d))
    /\ d # e
    /\ \A p \in 1..Len(d) : p \notin RowsOfPlate(d, j) => p <= Len(e) /\ e[p] = d[p]
    /\ \A p \in 1..Len(e) : p \notin RowsOfPlate(e, j) => p <= Len(d) /\ d[p] = e[p]

InitPair ==
    /\ pc = "start"
    /\ doc \in PairDocs
    /\ input \in [doc : PairDocs, plate : 1..MaxPlates]
    /\ DifferInPlate(doc, input.doc, input.plate)
    /\ output = NoResult
    /\ sections = <<>>
    /\ nextPlate = 0
    /\ yielded = <<>>
    /\ returned = NoResult
    /\ failure = "none"
    /\ NoHarvest

\* parse() on the first document
ParseDocument ==
    /\ pc = "start"
    /\ returned' = parse(doc)
    /\ pc' = "first"
    /\ UNCHANGED <<doc, sections, nextPlate, yielded, failure, harvest, input, output>>

\* then parse() on the second document
ParseOther ==
    /\ pc = "first"
    /\ output' = parse(input.doc)
    /\ pc' = "parsed"
    /\ UNCHANGED <<doc, sections, nextPlate, yielded, returned, failure, harvest, input>>

NextPair == ParseDocument \/ ParseOther

SpecPair == InitPair /\ [][NextPair]_vars

\* C23: plates are parsed independently: of two documents with the same
\* number and positions of plate-start rows that differ only in rows of plate
\* j's section, parse returns identical records (name, timestamp, plate size,
\* metadata, table) for every other plate i # j.
C23_PlatesIndependent ==
    (pc = "parsed" /\ IsOk(returned) /\ IsOk(output)) =>
        /\ Len(returned.value) = Len(output.value)
        /\ \A i \in 1..Len(returned.value) :
              i # input.plate => returned.value[i] = output.value[i]

(***************************************************************************)
(* parse() followed by a read of the plate_names and num_plates            *)
(* properties, on documents of at most MaxPlates plate blocks whose        *)
(* "Plate name" rows have no, one or two cells after the label, or a name  *)
(* of two lines.                                                           *)
(***************************************************************************)
\* re.sub("\n+", "\n", s)
RECURSIVE CollapseNewlines(_)
CollapseNewlines(s) ==
    IF s = <<>> THEN <<>>
    ELSE IF Head(s) = NL /\ Len(s) > 1 /\ s[2] = NL THEN CollapseNewlines(Tail(s))
    ELSE <<Head(s)>> \o CollapseNewlines(Tail(s))

\* the element of the comprehension at spectramax.py:55
PlateNameOfRow(row) ==
    LET lines == Split(Strip(RowText(row)), NL)
    IN  CollapseNewlines(lines[Len(lines)])

\* the plate_names property (spectramax.py:54-62)
plate_names(d) == [i \in 1..Len(PlateNameRows(d)) |-> PlateNameOfRow(RowOf(d[PlateNameRows(d)[i]]))]

\* the num_plates property (spectramax.py:64-66)
num_plates(d) == Len(plate_names(d))

NameBlocks ==
    { <<"sect", "pn1", "mtK", "wd", "khdr", "kd0">>,
      <<"note", "pn2", "mtE", "wd", "ehdr", "edA">>,
      <<"sect", "pn0", "mtK", "wd", "khdr", "kd0">>,
      <<"note", "pnX", "mtE", "wd", "ehdr", "edA">>,
      <<"blank", "pnL", "mtK", "wd", "khdr", "kd0">>,
      <<"sect", "pn1", "mtX", "wd", "khdr", "kd0">>,
      <<"pn2", "mtK", "wd", "khdr", "kd0">> }

NameDocs == {Join(blocks) : blocks \in SeqsUpTo(NameBlocks, MaxPlates)}

InitNames ==
    /\ pc = "start"
    /\ doc \in NameDocs
    /\ sections = <<>>
    /\ nextPlate = 0
    /\ yielded = <<>>
    /\ returned = NoResult
    /\ failure = "none"
    /\ NoHarvest
    /\ NoCall

\* parser.plate_names and parser.num_plates read after parse() returned
ReadPlateNames ==
    /\ pc = "done"
    /\ pc' = "named"
    /\ output' = [plate_names |-> plate_names(doc), num_plates |-> num_plates(doc)]
    /\ UNCHANGED <<doc, sections, nextPlate, yielded, returned, failure, harvest, input>>

NextNames == Segment \/ ParsePlate \/ Return \/ ReadPlateNames

SpecNames == InitNames /\ [][NextNames]_vars

\* C24: for every document on which parse succeeds, num_plates equals the
\* number of records parse returns and plate_names equals the list of the
\* records' name fields in the same order.
C24_NamesAgree ==
    pc = "named" =>
        /\ output.num_plates = Len(returned)
        /\ output.plate_names = [i \in 1..Len(returned) |-> returned[i].name]

(***************************************************************************)
(* The order of events while generate_plate_measurements is iterated       *)
(* (specification Spec).                                                   *)
(***************************************************************************)
\* a record is yielded in this step
Yields == yielded' # yielded

\* the failure of a plate has been raised
Raised == failure # "none"

\* C25: iterating generate_plate_measurements, segmentation of the whole
\* document completes before the first record is yielded; records are then
\* yielded one at a time in document order, plate i being parsed only after
\* plate i-1's record was yielded; if plate j is the first plate that fails,
\* the records of plates 1..j-1 have been yielded when the failure is raised,
\* and no record of plate j or of a later plate is ever yielded.
C25_YieldOrder ==
    /\ [](yielded # <<>> => pc # "start" /\ Len(sections) = NumPlates)
    /\ [][Yields => /\ pc = "segmented"
                    /\ Len(sections) = NumPlates
                    /\ nextPlate = Len(yielded) + 1
                    /\ nextPlate' = nextPlate + 1
                    /\ Len(yielded') = Len(yielded) + 1
                    /\ SubSeq(yielded', 1, Len(yielded)) = yielded
                    /\ yielded'[nextPlate].name = PlateNameOf(nextPlate)]_vars
    /\ []((Raised /\ NumPlates >= 1) =>
             /\ nextPlate \in 1..NumPlates
             /\ Len(yielded) = nextPlate - 1
             /\ \A i \in 1..Len(yielded) : yielded[i].name = PlateNameOf(i))
    /\ [][Raised => yielded' = yielded /\ failure' = failure]_vars

\* the second of two plates failed after the record of the first was yielded
C25_Witness ==
    /\ pc = "failed"
    /\ NumPlates = 2
    /\ nextPlate = 2
    /\ Len(yielded) = 1
    /\ yielded[1].name = PlateNameOf(1)

(***************************************************************************)
(* Plates whose type parser emits no record (specification SpecPlate).     *)
(***************************************************************************)
\* what the type parser of a plate of type t gives for the measurement rows m
EmittedTable(m, t) ==
    ParseMeasurements(t, m, Harvest(doc, sections[1]).metadata, PLATE_96)

\* the type parser ended and emitted no record
EmittedNothing(emitted) == IsOk(emitted) /\ emitted.value.rows = <<>>

\* the measurement rows are plain and start with a header row
AllPlain(m, t) ==
    /\ m # <<>>
    /\ IsHeaderRow(m[1], t)
    /\ \A i \in 1..Len(m) : PlainRow(m[i], t)

\* no record is returned for a plate whose parser emitted none, and an empty
\* table only for records that all lack their value; emitted is what the
\* type parser gave, plain says that the rows m are plain, paired and numeric
\* are the cells under a well and those of them with a number
NoRecordsNoPlate(emitted, m, plain, paired, numeric) ==
    /\ EmittedNothing(emitted) => pc = "failed" /\ failure = "KeyError"
    /\ pc = "done" => IsOk(emitted) /\ emitted.value.rows # <<>>
    /\ (pc = "done" /\ returned[1].measurements.rows = <<>>) =>
          \A k \in 1..Len(emitted.value.rows) : emitted.value.rows[k].value.kind = "nan"
    /\ m = <<>> => pc = "failed"
    /\ (m = <<>> /\ HasWavelengthBound) => EmittedNothing(emitted)
    /\ (plain /\ HasWavelengthBound /\ paired = {}) => EmittedNothing(emitted)
    /\ (pc = "done" /\ plain) => paired # {}
    /\ (pc = "done" /\ plain /\ returned[1].measurements.rows = <<>>) => numeric = {}

\* the same for a plate of the recognized type t with the measurement rows m
NoRecordsOfType(m, t) ==
    t \in {sEndpoint, sSpectrumScan, sKinetic} =>
        NoRecordsNoPlate(EmittedTable(m, t), m, AllPlain(m, t),
                         Paired(m, t, HeaderOffset(t)), NumericCells(m, t, HeaderOffset(t)))

====
